---------------------------- MODULE Spec2Model ----------------------------
(***************************************************************************)
(* Verification model of the Sunny communication substrate:               *)
(*   - SpscRingBuffer / AtomicParameter   (Sunny.Infrastructure/RealTime)  *)
(*   - TcpTransport                       (Sunny.Infrastructure/Transport) *)
(*   - SessionStateMachine                (Sunny.Infrastructure/Session)   *)
(*   - OscWriter / OscReader              (Sunny.Infrastructure/Protocol)  *)
(*   - LomProtocol                        (Sunny.Infrastructure/Bridge)    *)
(*   - Transport                          (Sunny.Render/Transport)         *)
(*   - Orchestrator                       (Sunny.Infrastructure/Application)*)
(* Each component has its own specification (SpecRing, SpecParam, ...);    *)
(* the variables of the other components stay untouched in it.            *)
(***************************************************************************)
EXTENDS Integers, Sequences, FiniteSets, TLC

VARIABLES
    \* ---- SpscRingBuffer<T, Capacity> (RTLF001A.h) ----
    write_pos_,     \* std::atomic<size_t> write_pos_
    read_pos_,      \* std::atomic<size_t> read_pos_
    buffer_,        \* std::array<T, Capacity> buffer_
    p_pc,           \* producer: position inside try_push, size or empty
    p_w, p_r,       \* producer: locals w, r of try_push
    p_item,         \* producer: argument item of try_push
    p_ret,          \* producer: result of the last completed try_push
    c_pc,           \* consumer: position inside try_pop, size or empty
    c_r, c_w,       \* consumer: locals r, w of try_pop
    c_item,         \* consumer: the caller's output variable item
    c_ret,          \* consumer: result of the last completed try_pop
    pushed,         \* history: values accepted by successful try_push calls
    popped,         \* history: values returned by successful try_pop calls
    sz_w,           \* size: local w, per calling thread
    sz_ret,         \* history: the last completed size() or empty() call
    \* ---- AtomicParameter<T> (RTLF001A.h) ----
    value_,         \* std::atomic<T> value_
    ld_ret,         \* reader: result of the last load(), <<>> before the first
    xchg_ret,       \* writer: result of the last exchange(), <<>> before the first
    last_stored,    \* history: argument of the last store/exchange (or initial)
    prev_stored,    \* history: last_stored before the last store/exchange
    written,        \* history: the initial value and every value stored
    ap_op,          \* history: the last AtomicParameter operation
    \* ---- TcpTransport (INTP001A.h, INTP001A.cpp) ----
    state_,             \* std::atomic<TransportState> state_
    socket_fd_,         \* int socket_fd_, -1 when there is no socket
    running_,           \* std::atomic<bool> running_
    receive_thread_,    \* std::thread receive_thread_: "none" or "joinable"
    reconnect_thread_,  \* std::thread reconnect_thread_: "none" or "joinable"
    delay_ms,           \* reconnect_loop: local delay_ms
    config_,            \* TransportConfig config_
    pc,                 \* the position of every thread in the transport's code
    ss_arg,             \* set_state: argument new_state, per thread
    ss_ret,             \* set_state: where the caller continues, per thread
    fd_local,           \* receive_loop: pfd.fd, per thread
    sock,               \* the kernel's view of every descriptor
    crashed,            \* std::terminate was called
    pending,            \* history: threads that changed state_ and have not
                        \* yet called the state callback, oldest change first
    last_cb,            \* history: the state passed to the last state callback
    disc_done,          \* history: disconnect() returned, connect() not yet called
    loss_pending,       \* history: a receive loop detected a loss that no
                        \* reconnection or disconnect() has ended yet
    prev_delay,         \* history: <<delay>> of the last sleep of this reconnect loop
    rx_frame,           \* history: the frame whose header the receive loop read
                        \* in this iteration, NoFrame before the header is read
    send_mutex_,        \* std::mutex send_mutex_: the thread that holds it, or "none"
    wire,               \* history: the bytes ::send has put on the stream of each
                        \* open descriptor
    wire_on,            \* history: whether wire is recorded in this behaviour
    snd_len,            \* send_framed: argument len, per sender
    total_sent,         \* send_framed: local total_sent, per sender
    connected_before,   \* history: a connect_socket() call has returned true
    \* ---- SessionStateMachine (INSM001A.h) ----
    connection_state_,  \* ConnectionState connection_state_
    mode_,              \* SessionMode mode_
    observers_,         \* std::vector<StateChangeCallback> observers_
    s_op,               \* history: the last operation called, with its argument
    s_before,           \* history: the members when that operation was called
    s_invoked,          \* history: the observer calls that operation made, in order
    \* ---- OscWriter / OscReader (WPOSC001A.h) ----
    writer,             \* the members of an OscWriter
    reader,             \* the members of an OscReader, NoReader while none exists
    osc_op,             \* history: the last operation, its argument and the
                        \* writer it was called on
    received,           \* the bytes the application holds for decoding
    \* ---- LomProtocol (INBR001A.h) ----
    lom_input,          \* history: the last text given to deserialize_response
    lom_result,         \* history: what that call gave
    \* ---- render Transport (RDTR001A.h) ----
    play_state_,        \* state_
    current_tick_,
    event_queue_,       \* the scheduled events not yet popped
    note_on_callback_,  \* a callable note-on callback is set
    note_off_callback_, \* a callable note-off callback is set
    scheduled,          \* history: the number of events scheduled so far
    dispatched,         \* history: the callback calls made, in order
    cleared,            \* history: the events removed by clear_scheduled
    rt_op,              \* history: the last operation and the state it found
    \* ---- Orchestrator (INOR001A.h) ----
    undo_stack_,
    redo_stack_,
    max_undo_levels_,
    recorded,           \* history: the number of operations recorded so far
    orch_op             \* history: the last operation and the stacks it found

ringVars  == <<write_pos_, read_pos_, buffer_, p_pc, p_w, p_r, p_item, p_ret,
               c_pc, c_r, c_w, c_item, c_ret, pushed, popped, sz_w, sz_ret>>
paramVars == <<value_, ld_ret, xchg_ret, last_stored, prev_stored, written, ap_op>>
tcpVars   == <<state_, socket_fd_, running_, receive_thread_, reconnect_thread_,
               delay_ms, config_, pc, ss_arg, ss_ret, fd_local, sock, crashed,
               pending, last_cb, disc_done, loss_pending, prev_delay, rx_frame,
               send_mutex_, wire, wire_on, snd_len, total_sent,
               connected_before>>
sessVars  == <<connection_state_, mode_, observers_, s_op, s_before, s_invoked>>
oscVars   == <<writer, reader, osc_op, received>>
lomVars   == <<lom_input, lom_result>>
rtVars    == <<play_state_, current_tick_, event_queue_, note_on_callback_,
               note_off_callback_, scheduled, dispatched, cleared, rt_op>>
orchVars  == <<undo_stack_, redo_stack_, max_undo_levels_, recorded, orch_op>>
vars      == <<ringVars, paramVars, tcpVars, sessVars, oscVars, lomVars, rtVars,
               orchVars>>

-----------------------------------------------------------------------------
(* Machine arithmetic                                                      *)

\* width of std::size_t in the model (the cursors wrap modulo 2^WordBits)
WordBits == 3
WordMod  == 2 ^ WordBits

\* unsigned subtraction of two size_t values
USub(a, b) == (a - b) % WordMod

\* unsigned addition of two size_t values
UAdd(a, b) == (a + b) % WordMod

RECURSIVE BitAnd(_, _)
\* bitwise AND of two naturals
BitAnd(a, b) ==
    IF a = 0 \/ b = 0 THEN 0
    ELSE (IF a % 2 = 1 /\ b % 2 = 1 THEN 1 ELSE 0) + 2 * BitAnd(a \div 2, b \div 2)

-----------------------------------------------------------------------------
(* SpscRingBuffer                                                          *)

\* template parameter Capacity (SpscRingBuffer<int, 4> in the unit tests)
Capacity == 4
\* static constexpr std::size_t mask_ = Capacity - 1
mask_ == Capacity - 1

\* number of successful pushes explored: both cursors pass 2^WordBits
MaxPushes == 9
\* the items the producer may push; 0 is T{} of the value-initialised buffer_
Values == 1..2

\* the threads that call size() and empty(): "Safe to call from either thread"
SizeCallers == {"producer", "consumer"}

\* no size() or empty() call has completed
NoSize == [fn |-> "none"]

\* the slot of a cursor, with the bug "pos % mask_"
SlotModMask(pos) == pos % mask_

\* the slot of a cursor, lines 86 and 103: pos & mask_
Slot(pos) == BitAnd(pos, mask_)

InitRing ==
    /\ write_pos_ = 0
    /\ read_pos_ = 0
    /\ buffer_ = [i \in 0..(Capacity - 1) |-> 0]
    /\ p_pc = "idle" /\ p_w = 0 /\ p_r = 0 /\ p_item = 0 /\ p_ret = "none"
    /\ c_pc = "idle" /\ c_r = 0 /\ c_w = 0 /\ c_ret = "none"
    /\ c_item = 0
    /\ pushed = <<>>
    /\ popped = <<>>
    /\ sz_w = [t \in SizeCallers |-> 0]
    /\ sz_ret = NoSize

InitParamIdle ==
    /\ value_ = 0 /\ ld_ret = <<>> /\ xchg_ret = <<>>
    /\ last_stored = 0 /\ prev_stored = 0 /\ written = {0} /\ ap_op = "none"

\* try_push, line 79: the call with its argument, and the relaxed load of write_pos_
PushLoadW(v) ==
    /\ p_pc = "idle"
    /\ Len(pushed) < MaxPushes
    /\ p_item' = v
    /\ p_w' = write_pos_
    /\ p_pc' = "load_r"
    /\ UNCHANGED <<write_pos_, read_pos_, buffer_, p_r, p_ret,
                   c_pc, c_r, c_w, c_item, c_ret, pushed, popped>>
    /\ UNCHANGED <<sz_w, sz_ret>>
    /\ UNCHANGED <<paramVars, tcpVars, sessVars, oscVars, lomVars, rtVars,
                 orchVars>>

\* try_push, line 80: the acquire load of read_pos_
PushLoadR ==
    /\ p_pc = "load_r"
    /\ p_r' = read_pos_
    /\ p_pc' = "check"
    /\ UNCHANGED <<write_pos_, read_pos_, buffer_, p_w, p_item, p_ret,
                   c_pc, c_r, c_w, c_item, c_ret, pushed, popped>>
    /\ UNCHANGED <<sz_w, sz_ret>>
    /\ UNCHANGED <<paramVars, tcpVars, sessVars, oscVars, lomVars, rtVars,
                 orchVars>>

\* the full test of try_push, line 82, with the bug of a difference that does
\* not wrap
PushIsFullNoWrap(w, r) == w - r >= Capacity

\* the full test of try_push, line 82, with the bug "w - r > Capacity"
PushIsFullOffByOne(w, r) == USub(w, r) > Capacity

\* the full test of try_push, line 82: w - r >= Capacity
PushIsFull(w, r) == USub(w, r) >= Capacity

\* try_push, lines 82-84: the buffer is full, return false
PushFull ==
    /\ p_pc = "check"
    /\ PushIsFull(p_w, p_r)
    /\ p_ret' = "false"
    /\ p_pc' = "idle"
    /\ UNCHANGED <<write_pos_, read_pos_, buffer_, p_w, p_r, p_item,
                   c_pc, c_r, c_w, c_item, c_ret, pushed, popped>>
    /\ UNCHANGED <<sz_w, sz_ret>>
    /\ UNCHANGED <<paramVars, tcpVars, sessVars, oscVars, lomVars, rtVars,
                 orchVars>>

\* try_push, line 86: buffer_[w & mask_] = item
PushWrite ==
    /\ p_pc = "check"
    /\ ~PushIsFull(p_w, p_r)
    /\ buffer_' = [buffer_ EXCEPT ![Slot(p_w)] = p_item]
    /\ p_pc' = "store"
    /\ UNCHANGED <<write_pos_, read_pos_, p_w, p_r, p_item, p_ret,
                   c_pc, c_r, c_w, c_item, c_ret, pushed, popped>>
    /\ UNCHANGED <<sz_w, sz_ret>>
    /\ UNCHANGED <<paramVars, tcpVars, sessVars, oscVars, lomVars, rtVars,
                 orchVars>>

\* try_push, lines 87-88: the release store of w + 1, return true
PushStore ==
    /\ p_pc = "store"
    /\ write_pos_' = UAdd(p_w, 1)
    /\ p_ret' = "true"
    /\ p_pc' = "idle"
    /\ pushed' = Append(pushed, p_item)
    /\ UNCHANGED <<read_pos_, buffer_, p_w, p_r, p_item,
                   c_pc, c_r, c_w, c_item, c_ret, popped>>
    /\ UNCHANGED <<sz_w, sz_ret>>
    /\ UNCHANGED <<paramVars, tcpVars, sessVars, oscVars, lomVars, rtVars,
                 orchVars>>

\* try_pop, line 96: the call, and the relaxed load of read_pos_
PopLoadR ==
    /\ c_pc = "idle"
    /\ c_r' = read_pos_
    /\ c_pc' = "load_w"
    /\ UNCHANGED <<write_pos_, read_pos_, buffer_, p_pc, p_w, p_r, p_item, p_ret,
                   c_w, c_item, c_ret, pushed, popped>>
    /\ UNCHANGED <<sz_w, sz_ret>>
    /\ UNCHANGED <<paramVars, tcpVars, sessVars, oscVars, lomVars, rtVars,
                 orchVars>>

\* try_pop, line 97: the acquire load of write_pos_
PopLoadW ==
    /\ c_pc = "load_w"
    /\ c_w' = write_pos_
    /\ c_pc' = "check"
    /\ UNCHANGED <<write_pos_, read_pos_, buffer_, p_pc, p_w, p_r, p_item, p_ret,
                   c_r, c_item, c_ret, pushed, popped>>
    /\ UNCHANGED <<sz_w, sz_ret>>
    /\ UNCHANGED <<paramVars, tcpVars, sessVars, oscVars, lomVars, rtVars,
                 orchVars>>

\* the empty test of try_pop, line 99, with the bug of comparing the slot indices
PopIsEmptyMasked(r, w) == BitAnd(r, mask_) = BitAnd(w, mask_)

\* the empty test of try_pop, line 99, with the bug "r > w"
PopIsEmptyGreater(r, w) == r > w

\* the empty test of try_pop, line 99: r == w
PopIsEmpty(r, w) == r = w

\* try_pop, lines 99-101: the buffer is empty, return false
PopEmpty ==
    /\ c_pc = "check"
    /\ PopIsEmpty(c_r, c_w)
    /\ c_ret' = "false"
    /\ c_pc' = "idle"
    /\ UNCHANGED <<write_pos_, read_pos_, buffer_, p_pc, p_w, p_r, p_item, p_ret,
                   c_r, c_w, c_item, pushed, popped>>
    /\ UNCHANGED <<sz_w, sz_ret>>
    /\ UNCHANGED <<paramVars, tcpVars, sessVars, oscVars, lomVars, rtVars,
                 orchVars>>

\* try_pop, line 103: item = buffer_[r & mask_]
PopRead ==
    /\ c_pc = "check"
    /\ ~PopIsEmpty(c_r, c_w)
    /\ c_item' = buffer_[Slot(c_r)]
    /\ c_pc' = "store"
    /\ UNCHANGED <<write_pos_, read_pos_, buffer_, p_pc, p_w, p_r, p_item, p_ret,
                   c_r, c_w, c_ret, pushed, popped>>
    /\ UNCHANGED <<sz_w, sz_ret>>
    /\ UNCHANGED <<paramVars, tcpVars, sessVars, oscVars, lomVars, rtVars,
                 orchVars>>

\* try_pop, lines 104-105: the release store of r + 1, return true
PopStore ==
    /\ c_pc = "store"
    /\ read_pos_' = UAdd(c_r, 1)
    /\ c_ret' = "true"
    /\ c_pc' = "idle"
    /\ popped' = Append(popped, c_item)
    /\ UNCHANGED <<write_pos_, buffer_, p_pc, p_w, p_r, p_item, p_ret,
                   c_r, c_w, c_item, pushed>>
    /\ UNCHANGED <<sz_w, sz_ret>>
    /\ UNCHANGED <<paramVars, tcpVars, sessVars, oscVars, lomVars, rtVars,
                 orchVars>>

\* size(), lines 114-118
size == USub(write_pos_, read_pos_)

\* the position of a thread in its current call
PcOf(t) == IF t = "producer" THEN p_pc ELSE c_pc

\* thread t moves to position to, the other thread stays where it is
CallerGoto(t, to) ==
    IF t = "producer" THEN p_pc' = to /\ UNCHANGED c_pc
                      ELSE c_pc' = to /\ UNCHANGED p_pc

\* the result of size(), with the bug "r - w"
SizeResultSwapped(w, r) == USub(r, w)

\* the result of size(), line 117: w - r
SizeResult(w, r) == USub(w, r)

\* size(), line 115, called directly (fn = "size") or from empty(), line 120
\* (fn = "empty"): the acquire load of write_pos_
SizeLoadW(t, fn) ==
    /\ PcOf(t) = "idle"
    /\ sz_w' = [sz_w EXCEPT ![t] = write_pos_]
    /\ CallerGoto(t, fn)
    /\ UNCHANGED <<write_pos_, read_pos_, buffer_, p_w, p_r, p_item, p_ret,
                   c_r, c_w, c_item, c_ret, pushed, popped, sz_ret>>
    /\ UNCHANGED <<paramVars, tcpVars, sessVars, oscVars, lomVars, rtVars,
                 orchVars>>

\* size(), lines 116-117: the acquire load of read_pos_ and the return of w - r;
\* empty(), line 120, returns size() == 0.  The local w ends with the call.
SizeLoadR(t) ==
    /\ PcOf(t) \in {"size", "empty"}
    /\ LET result == SizeResult(sz_w[t], read_pos_)
       IN  sz_ret' = [fn |-> PcOf(t), caller |-> t, count |-> result,
                      empty |-> (result = 0),
                      moved |-> (sz_w[t] # write_pos_)]
    /\ sz_w' = [sz_w EXCEPT ![t] = 0]
    /\ CallerGoto(t, "idle")
    /\ UNCHANGED <<write_pos_, read_pos_, buffer_, p_w, p_r, p_item, p_ret,
                   c_r, c_w, c_item, c_ret, pushed, popped>>
    /\ UNCHANGED <<paramVars, tcpVars, sessVars, oscVars, lomVars, rtVars,
                 orchVars>>

NextRing ==
    \/ \E v \in Values : PushLoadW(v)
    \/ PushLoadR
    \/ PushFull
    \/ PushWrite
    \/ PushStore
    \/ PopLoadR
    \/ PopLoadW
    \/ PopEmpty
    \/ PopRead
    \/ PopStore

\* the items pushed while size() calls are explored: size() does not look at them
SizeValues == {1}

NextRingSize ==
    \/ \E v \in SizeValues : PushLoadW(v)
    \/ PushLoadR
    \/ PushFull
    \/ PushWrite
    \/ PushStore
    \/ PopLoadR
    \/ PopLoadW
    \/ PopEmpty
    \/ PopRead
    \/ PopStore
    \/ \E t \in SizeCallers, fn \in {"size", "empty"} : SizeLoadW(t, fn)
    \/ \E t \in SizeCallers : SizeLoadR(t)

-----------------------------------------------------------------------------
(* Properties of SpscRingBuffer                                            *)

\* the values still in the buffer, oldest first
SlotOf(pos) == pos % Capacity
Unread == [k \in 1..size |-> buffer_[SlotOf(UAdd(read_pos_, k - 1))]]

\* the suffix of pushed that was not popped yet
Pending == [k \in 1..(Len(pushed) - Len(popped)) |-> pushed[Len(popped) + k]]

IsPrefix(s, t) == Len(s) <= Len(t) /\ \A i \in 1..Len(s) : s[i] = t[i]

\* C1: with one producer and one consumer, under every interleaving of their
\* steps, the values popped are a prefix of the values pushed (FIFO, no loss,
\* no duplication); the consumer reads only a published slot and the producer
\* writes only a slot that holds no unread value.
C1_Fifo ==
    /\ IsPrefix(popped, pushed)
    /\ size = Len(pushed) - Len(popped)
    /\ Unread = Pending
    /\ (c_pc = "check" /\ c_r # c_w) =>
            /\ USub(write_pos_, c_r) \in 1..Capacity
            /\ buffer_[SlotOf(c_r)] = pushed[Len(popped) + 1]
    /\ (c_pc = "store") => c_item = pushed[Len(popped) + 1]
    /\ (p_pc = "check" /\ USub(p_w, p_r) < Capacity) =>
            /\ USub(p_w, read_pos_) < Capacity
            /\ \A k \in 1..size : SlotOf(UAdd(read_pos_, k - 1)) # SlotOf(p_w)

\* C1 witness: both threads are inside their calls after the slots wrapped round
C1_Witness ==
    /\ Len(popped) >= Capacity
    /\ p_pc = "store"
    /\ c_pc = "store"

\* C2: try_push fails iff the buffer held Capacity unread items when it loaded
\* the read cursor; a failed try_push changes no cursor and no element; a
\* successful one makes its item the newest element.
C2_TryPush ==
    /\ [](p_pc \in {"load_r", "check", "store"} => p_w = write_pos_)
    /\ [](p_pc = "check" /\ p_r = read_pos_ =>
            (USub(p_w, p_r) = Capacity <=> Len(pushed) - Len(popped) = Capacity))
    /\ [][ /\ (p_pc = "load_r" /\ p_pc' = "check") =>
                USub(p_w', p_r') = size
           /\ (p_pc = "check" /\ p_pc' = "idle") =>
                /\ p_ret' = "false"
                /\ USub(p_w, p_r) = Capacity
           /\ (p_pc = "check" /\ USub(p_w, p_r) = Capacity) => p_pc' \in {"check", "idle"}
           /\ (p_pc # p_pc' /\ p_pc' # "store" /\ ~(p_pc = "store")) =>
                UNCHANGED <<write_pos_, read_pos_, buffer_, pushed>>
           /\ (p_pc = "check" /\ p_pc' = "store") =>
                /\ USub(p_w, p_r) < Capacity
                /\ buffer_'[SlotOf(write_pos_)] = p_item
           /\ (p_pc = "store" /\ p_pc' = "idle") =>
                /\ p_ret' = "true"
                /\ write_pos_' = UAdd(write_pos_, 1)
                /\ Unread'[size'] = p_item
                /\ pushed' = Append(pushed, p_item)
         ]_vars

\* C2 witness: the fifth push into an untouched buffer of four has just failed
C2_Witness ==
    /\ p_pc = "idle" /\ p_ret = "false"
    /\ Len(pushed) = Capacity /\ Len(popped) = 0 /\ c_ret = "none"

\* C2 witness of the second half is C2_Witness followed by a pop and a push;
\* the state after it:
C2_PushAfterPop ==
    /\ p_pc = "idle" /\ p_ret = "true"
    /\ Len(pushed) = Capacity + 1 /\ Len(popped) = 1

\* C3: write_cursor - read_cursor lies in [0, Capacity] in every reachable state
C3_SizeInRange == USub(write_pos_, read_pos_) \in 0..Capacity

\* C3 witness: the buffer is full while both threads are between their steps
C3_Witness ==
    /\ USub(write_pos_, read_pos_) = Capacity
    /\ p_pc = "check"
    /\ c_pc = "store"

\* C4: try_pop fails iff the buffer was empty when it loaded the write cursor;
\* a failed try_pop changes no cursor and not the caller's item; a successful
\* one yields the oldest unread element and advances the read cursor by one.
C4_TryPop ==
    /\ [](c_pc \in {"load_w", "check", "store"} => c_r = read_pos_)
    /\ [](c_pc = "check" /\ c_w = write_pos_ =>
            (c_r = c_w <=> Len(pushed) = Len(popped)))
    /\ [][ /\ (c_pc = "load_w" /\ c_pc' = "check") =>
                USub(c_w', c_r') = size
           /\ (c_pc = "check" /\ c_pc' = "idle") =>
                /\ c_ret' = "false"
                /\ c_r = c_w
           /\ (c_pc = "check" /\ c_r = c_w) => c_pc' \in {"check", "idle"}
           /\ (c_pc # c_pc' /\ c_pc' # "store" /\ ~(c_pc = "store")) =>
                UNCHANGED <<write_pos_, read_pos_, c_item, popped>>
           /\ (c_pc = "check" /\ c_pc' = "store") =>
                /\ c_r # c_w
                /\ c_item' = pushed[Len(popped) + 1]
                /\ c_item' = Unread[1]
           /\ (c_pc = "store" /\ c_pc' = "idle") =>
                /\ c_ret' = "true"
                /\ read_pos_' = UAdd(read_pos_, 1)
                /\ popped' = Append(popped, c_item)
         ]_vars

\* C4 witness: a pop has failed on a drained buffer, the caller's item still
\* holding the value of the pop before
C4_Witness ==
    /\ c_pc = "idle" /\ c_ret = "false"
    /\ Len(popped) > 0 /\ Len(pushed) = Len(popped)
    /\ c_item = popped[Len(popped)]

\* the cursors the producer loaded, counted without a machine word: the number
\* of items pushed, and the number of items popped when read_pos_ was loaded
LoadedByProducer ==
    {R \in 0..Len(popped) :
        R % WordMod = p_r /\ Len(pushed) - R \in 0..Capacity}

\* the number of items pushed when the consumer loaded write_pos_
LoadedByConsumer ==
    {W \in Len(popped)..Len(pushed) : W % WordMod = c_w}

\* C38: with cursors kept modulo 2^WordBits, the full test, the empty test and
\* the slot index give what the unbounded cursors (the numbers of items pushed
\* and popped) give, and the items leave in FIFO order, also after either
\* cursor has wrapped.
C38_CursorWrap ==
    /\ write_pos_ = Len(pushed) % WordMod
    /\ read_pos_ = Len(popped) % WordMod
    /\ p_pc = "check" =>
          /\ Cardinality(LoadedByProducer) = 1
          /\ \A R \in LoadedByProducer :
                PushIsFull(p_w, p_r) <=> (Len(pushed) - R >= Capacity)
    /\ p_pc = "store" =>
          /\ Slot(p_w) = Len(pushed) % Capacity
          /\ buffer_[Len(pushed) % Capacity] = p_item
    /\ c_pc = "check" =>
          /\ Cardinality(LoadedByConsumer) = 1
          /\ \A W \in LoadedByConsumer :
                PopIsEmpty(c_r, c_w) <=> (Len(popped) = W)
    /\ c_pc = "store" =>
          /\ Slot(c_r) = Len(popped) % Capacity
          /\ c_item = pushed[Len(popped) + 1]
    /\ Len(pushed) - Len(popped) \in 0..Capacity
    /\ IsPrefix(popped, pushed)

\* C38 witness: the producer finds the buffer full with a write cursor that
\* has wrapped to a smaller number than the read cursor, while the consumer
\* is about to take the oldest item
C38_Witness ==
    /\ p_pc = "check" /\ p_w < p_r /\ PushIsFull(p_w, p_r)
    /\ Len(pushed) >= WordMod
    /\ c_pc = "store" /\ c_w < c_r

\* C37: size() called by the producer or by the consumer while the other
\* thread pushes or pops returns a value in [0, Capacity], never a wrapped
\* difference, at whatever moment its second load happens; empty() is true
\* only if that value is 0.
C37_SizeSnapshot ==
    /\ \A t \in SizeCallers :
          PcOf(t) \in {"size", "empty"} =>
              SizeResult(sz_w[t], read_pos_) \in 0..Capacity
    /\ sz_ret.fn # "none" =>
          /\ sz_ret.count \in 0..Capacity
          /\ (sz_ret.fn = "empty" /\ sz_ret.empty) => sz_ret.count = 0

\* C37 witness: the consumer's size() has returned Capacity - 1 although the
\* buffer is full: the producer, now inside try_push again, published an
\* item between the two loads
C37_Witness ==
    /\ sz_ret.fn = "size" /\ sz_ret.caller = "consumer"
    /\ sz_ret.moved
    /\ sz_ret.count = Capacity - 1
    /\ size = Capacity
    /\ p_pc = "load_r"
    /\ c_pc = "idle"

-----------------------------------------------------------------------------
(* AtomicParameter                                                         *)

\* the values of T that the writer stores (int32_t in the unit tests)
ParamValues == -1..2

InitParam ==
    /\ value_ \in ParamValues
    /\ ld_ret = <<>> /\ xchg_ret = <<>>
    /\ last_stored = value_ /\ prev_stored = value_
    /\ written = {value_}
    /\ ap_op = "none"

\* store(value), lines 175-177
Store(v) ==
    /\ value_' = v
    /\ prev_stored' = last_stored
    /\ last_stored' = v
    /\ written' = written \cup {v}
    /\ ap_op' = "store"
    /\ UNCHANGED <<ld_ret, xchg_ret>>
    /\ UNCHANGED <<ringVars, tcpVars, sessVars, oscVars, lomVars, rtVars,
                 orchVars>>

\* load(), lines 180-182
Load ==
    /\ ld_ret' = <<value_>>
    /\ ap_op' = "load"
    /\ UNCHANGED <<value_, xchg_ret, last_stored, prev_stored, written>>
    /\ UNCHANGED <<ringVars, tcpVars, sessVars, oscVars, lomVars, rtVars,
                 orchVars>>

\* the result of exchange, with the bug of returning the new value
ExchangeResultNew(old, new) == new

\* the result of std::atomic<T>::exchange, line 186: the previous value
ExchangeResult(old, new) == old

\* exchange(value), lines 185-187
Exchange(v) ==
    /\ xchg_ret' = <<ExchangeResult(value_, v)>>
    /\ value_' = v
    /\ prev_stored' = last_stored
    /\ last_stored' = v
    /\ written' = written \cup {v}
    /\ ap_op' = "exchange"
    /\ UNCHANGED <<ld_ret>>
    /\ UNCHANGED <<ringVars, tcpVars, sessVars, oscVars, lomVars, rtVars,
                 orchVars>>

NextParam ==
    \/ \E v \in ParamValues : Store(v)
    \/ Load
    \/ \E v \in ParamValues : Exchange(v)


\* C5: load() with no store in between returns the last stored (or the initial)
\* value; exchange(v) returns the previous value and leaves v stored; every
\* value load() returns is the initial value or one that store/exchange wrote.
C5_AtomicParameter ==
    /\ (ap_op = "load" => ld_ret = <<last_stored>>)
    /\ (ap_op = "exchange" => xchg_ret = <<prev_stored>> /\ value_ = last_stored)
    /\ (ld_ret # <<>> => ld_ret[1] \in written)
    /\ (xchg_ret # <<>> => xchg_ret[1] \in written)

\* C5 witness: an exchange replaced a stored value that a load had returned
C5_Witness ==
    /\ ap_op = "exchange"
    /\ ld_ret = <<prev_stored>>
    /\ xchg_ret # <<last_stored>>
    /\ Cardinality(written) >= 3

-----------------------------------------------------------------------------
(* TcpTransport                                                            *)

\* the threads: the control thread calling connect() and disconnect(), a
\* thread calling send(), the thread of receive_thread_ and the thread of
\* reconnect_thread_
Threads == {"app", "snd", "snd2", "rx", "rc"}
Owned   == {"rx", "rc"}

TransportStates == {"Disconnected", "Connecting", "Connected", "Reconnecting", "Error"}

\* int is 32 bits wide on the platforms the transport builds for (POSIX sockets)
IntMax == 2147483647
IntMin == (0 - IntMax) - 1

\* x * 2 does not fit in int
DoublingOverflows(x) == x > IntMax \div 2 \/ x < IntMin \div 2

\* x * 2 reduced to the two's-complement range of int
WrapDouble(x) ==
    IF x > IntMax \div 2 THEN ((x - IntMax) - 1) * 2
    ELSE IF x < IntMin \div 2 THEN (x - IntMin) * 2
    ELSE x * 2

\* int retry_delay_ms{1000}
DefaultRetryDelayMs == 1000
\* int max_retry_delay_ms{30000}
DefaultMaxRetryDelayMs == 30000
\* TransportConfig{} (the fields the reconnect loop reads)
DefaultConfig ==
    [retry_delay_ms |-> DefaultRetryDelayMs, max_retry_delay_ms |-> DefaultMaxRetryDelayMs]

\* the largest frame the receive loop accepts: 1024 * 1024
MaxMessageSize == 1048576
\* the length headers a peer may send
FrameLens == {0, MaxMessageSize, MaxMessageSize + 1, 2 * MaxMessageSize}

\* how many descriptors the process may hold open for this transport
FdLimit == 1
Fds == 0..(FdLimit - 1)

\* ::socket() returns the lowest descriptor that is not open, or -1
LowestFreeFd ==
    IF \A f \in Fds : sock[f] # "closed" THEN -1
    ELSE CHOOSE f \in Fds : sock[f] = "closed" /\ \A g \in Fds : sock[g] = "closed" => f <= g

\* the threads of the application that call send()
Senders == {"snd", "snd2"}

\* the longest message the senders pass to send()
MaxMsgLen == 2
MsgLens == 0..MaxMsgLen

\* the senders stop when a stream holds this many bytes
MaxWireLen == 6

\* no header has been read in this iteration of the receive loop
NoFrame == [by |-> "none", length |-> 0, payload_read |-> 0, delivered |-> FALSE]

\* the transport after construction with config c
InitTcpWith(c) ==
    /\ state_ = "Disconnected"
    /\ socket_fd_ = -1
    /\ running_ = FALSE
    /\ receive_thread_ = "none"
    /\ reconnect_thread_ = "none"
    /\ delay_ms = 0
    /\ config_ = c
    /\ pc = [t \in Threads |-> IF t \in Owned THEN "off" ELSE "idle"]
    /\ ss_arg = [t \in Threads |-> "Disconnected"]
    /\ ss_ret = [t \in Threads |-> "idle"]
    /\ fd_local = [t \in Owned |-> -1]
    /\ sock = [f \in Fds |-> "closed"]
    /\ crashed = FALSE
    /\ pending = <<>>
    /\ last_cb = "none"
    /\ disc_done = FALSE
    /\ loss_pending = FALSE
    /\ prev_delay = <<>>
    /\ rx_frame = NoFrame
    /\ send_mutex_ = "none"
    /\ wire = [f \in Fds |-> <<>>]
    /\ snd_len = [t \in Senders |-> 0]
    /\ total_sent = [t \in Senders |-> 0]
    /\ connected_before = FALSE

\* max_retry_delay_ms of the transport that the specification SpecTcp runs
MaxRetryDelayMs == 3000
TcpConfig ==
    [retry_delay_ms |-> DefaultRetryDelayMs, max_retry_delay_ms |-> MaxRetryDelayMs]

InitTcp == InitTcpWith(TcpConfig) /\ wire_on = FALSE

\* thread t goes to position p
Goto(t, p) == pc' = [pc EXCEPT ![t] = p]

\* thread t returns from set_state: its locals are gone
ReturnFromSetState(t) ==
    /\ pc' = [pc EXCEPT ![t] = ss_ret[t]]
    /\ ss_arg' = [ss_arg EXCEPT ![t] = "Disconnected"]
    /\ ss_ret' = [ss_ret EXCEPT ![t] = "idle"]

\* thread t calls set_state(new_state); it continues at ret
CallSetState(t, new_state, ret) ==
    /\ pc' = [pc EXCEPT ![t] = "ss_xchg"]
    /\ ss_arg' = [ss_arg EXCEPT ![t] = new_state]
    /\ ss_ret' = [ss_ret EXCEPT ![t] = ret]

\* the test of set_state, line 105, with the bug of leaving it out
StateChangedAlways(old_state, new_state) == TRUE

\* the test of set_state, line 105: old_state == new_state returns early
StateChanged(old_state, new_state) == old_state # new_state

\* set_state, lines 104-107: state_.exchange(new_state) and the early return
SetStateXchg(t) ==
    /\ ~crashed
    /\ pc[t] = "ss_xchg"
    /\ state_' = ss_arg[t]
    /\ IF StateChanged(state_, ss_arg[t])
       THEN /\ Goto(t, "ss_notify")
            /\ pending' = Append(pending, t)
            /\ UNCHANGED <<ss_arg, ss_ret>>
       ELSE /\ ReturnFromSetState(t)
            /\ UNCHANGED pending
    /\ UNCHANGED <<socket_fd_, running_, receive_thread_, reconnect_thread_,
                   delay_ms, config_, fd_local, sock, crashed, last_cb,
                   disc_done, loss_pending, prev_delay, rx_frame, send_mutex_,
                   wire, wire_on, snd_len, total_sent, connected_before>>
    /\ UNCHANGED <<ringVars, paramVars, sessVars, oscVars, lomVars, rtVars, orchVars>>

\* s without its first occurrence of t
RECURSIVE Without(_, _)
Without(s, t) ==
    IF s = <<>> THEN <<>>
    ELSE IF Head(s) = t THEN Tail(s)
    ELSE <<Head(s)>> \o Without(Tail(s), t)

\* set_state, lines 109-112: under callback_mutex_, state_callback_(new_state)
SetStateNotify(t) ==
    /\ ~crashed
    /\ pc[t] = "ss_notify"
    /\ last_cb' = ss_arg[t]
    /\ pending' = Without(pending, t)
    /\ ReturnFromSetState(t)
    /\ UNCHANGED <<state_, socket_fd_, running_, receive_thread_,
                   reconnect_thread_, delay_ms, config_, fd_local, sock,
                   crashed, disc_done, loss_pending, prev_delay, rx_frame,
                   send_mutex_, wire, wire_on, snd_len, total_sent,
                   connected_before>>
    /\ UNCHANGED <<ringVars, paramVars, sessVars, oscVars, lomVars, rtVars, orchVars>>

\* close_socket(), lines 172-178, as the new values of sock and socket_fd_
ClosedSock == IF socket_fd_ >= 0 THEN [sock EXCEPT ![socket_fd_] = "closed"] ELSE sock

\* close_socket(): the stream of the closed descriptor is gone
ClosedWire == IF socket_fd_ >= 0 THEN [wire EXCEPT ![socket_fd_] = <<>>] ELSE wire

\* connect(), lines 40-45
Connect ==
    /\ ~crashed
    /\ pc["app"] = "idle"
    /\ disc_done' = FALSE
    /\ IF state_ = "Connected"
       THEN UNCHANGED <<pc, ss_arg, ss_ret>>
       ELSE CallSetState("app", "Connecting", "cs_open")
    /\ UNCHANGED <<state_, socket_fd_, running_, receive_thread_,
                   reconnect_thread_, delay_ms, config_, fd_local, sock,
                   crashed, pending, last_cb, loss_pending, prev_delay,
                   rx_frame, send_mutex_, wire, wire_on, snd_len, total_sent,
                   connected_before>>
    /\ UNCHANGED <<ringVars, paramVars, sessVars, oscVars, lomVars, rtVars, orchVars>>

\* connect_socket(), lines 116-119: socket_fd_ = ::socket(...)
ConnectSocketOpen(t) ==
    /\ ~crashed
    /\ pc[t] = "cs_open"
    /\ socket_fd_' = LowestFreeFd
    /\ IF LowestFreeFd < 0
       THEN /\ Goto(t, "cs_failed")
            /\ UNCHANGED sock
       ELSE /\ Goto(t, "cs_finish")
            /\ sock' = [sock EXCEPT ![LowestFreeFd] = "connecting"]
    /\ UNCHANGED <<state_, running_, receive_thread_, reconnect_thread_,
                   delay_ms, config_, ss_arg, ss_ret, fd_local, crashed,
                   pending, last_cb, disc_done, loss_pending, prev_delay,
                   rx_frame, send_mutex_, wire, wire_on, snd_len, total_sent,
                   connected_before>>
    /\ UNCHANGED <<ringVars, paramVars, sessVars, oscVars, lomVars, rtVars, orchVars>>

\* connect_socket(), lines 137-169: the connection is established
ConnectSocketOk(t) ==
    /\ ~crashed
    /\ pc[t] = "cs_finish"
    /\ socket_fd_ >= 0
    /\ sock[socket_fd_] = "connecting"
    /\ sock' = [sock EXCEPT ![socket_fd_] = "up"]
    /\ connected_before' = TRUE
    /\ Goto(t, "cs_ok")
    /\ UNCHANGED <<state_, socket_fd_, running_, receive_thread_,
                   reconnect_thread_, delay_ms, config_, ss_arg, ss_ret,
                   fd_local, crashed, pending, last_cb, disc_done, loss_pending,
                   prev_delay, rx_frame, send_mutex_, wire, wire_on, snd_len,
                   total_sent>>
    /\ UNCHANGED <<ringVars, paramVars, sessVars, oscVars, lomVars, rtVars, orchVars>>

\* connect_socket(), lines 137-163: the attempt fails, close_socket()
ConnectSocketFail(t) ==
    /\ ~crashed
    /\ pc[t] = "cs_finish"
    /\ sock' = ClosedSock
    /\ wire' = ClosedWire
    /\ socket_fd_' = -1
    /\ Goto(t, "cs_failed")
    /\ UNCHANGED <<state_, running_, receive_thread_, reconnect_thread_,
                   delay_ms, config_, ss_arg, ss_ret, fd_local, crashed,
                   pending, last_cb, disc_done, loss_pending, prev_delay,
                   rx_frame, send_mutex_, wire_on, snd_len, total_sent,
                   connected_before>>
    /\ UNCHANGED <<ringVars, paramVars, sessVars, oscVars, lomVars, rtVars, orchVars>>

\* connect(), lines 47-50, with the bug of starting the reconnect loop when
\* connect_socket() failed
ConnectFailedRetry ==
    /\ ~crashed
    /\ pc["app"] = "cs_failed"
    /\ reconnect_thread_' = "joinable"
    /\ pc' = [pc EXCEPT !["app"] = "ss_xchg",
                        !["rc"] = IF @ = "off" THEN "rcl_start" ELSE @]
    /\ ss_arg' = [ss_arg EXCEPT !["app"] = "Error"]
    /\ ss_ret' = [ss_ret EXCEPT !["app"] = "c_false"]
    /\ UNCHANGED <<state_, socket_fd_, running_, receive_thread_, delay_ms,
                   config_, fd_local, sock, crashed, pending, last_cb,
                   disc_done, loss_pending, prev_delay, rx_frame, send_mutex_,
                   wire, wire_on, snd_len, total_sent, connected_before>>
    /\ UNCHANGED <<ringVars, paramVars, sessVars, oscVars, lomVars, rtVars, orchVars>>

\* connect(), lines 47-50: connect_socket() failed
ConnectFailed ==
    /\ ~crashed
    /\ pc["app"] = "cs_failed"
    /\ CallSetState("app", "Error", "c_false")
    /\ UNCHANGED <<state_, socket_fd_, running_, receive_thread_,
                   reconnect_thread_, delay_ms, config_, fd_local, sock,
                   crashed, pending, last_cb, disc_done, loss_pending,
                   prev_delay, rx_frame, send_mutex_, wire, wire_on, snd_len,
                   total_sent, connected_before>>
    /\ UNCHANGED <<ringVars, paramVars, sessVars, oscVars, lomVars, rtVars, orchVars>>

\* connect(), line 49: return false
ConnectReturnFalse ==
    /\ ~crashed
    /\ pc["app"] = "c_false"
    /\ Goto("app", "idle")
    /\ UNCHANGED <<state_, socket_fd_, running_, receive_thread_,
                   reconnect_thread_, delay_ms, config_, ss_arg, ss_ret,
                   fd_local, sock, crashed, pending, last_cb, disc_done,
                   loss_pending, prev_delay, rx_frame, send_mutex_, wire,
                   wire_on, snd_len, total_sent, connected_before>>
    /\ UNCHANGED <<ringVars, paramVars, sessVars, oscVars, lomVars, rtVars, orchVars>>

\* connect(), line 52: connect_socket() succeeded
ConnectSucceeded ==
    /\ ~crashed
    /\ pc["app"] = "cs_ok"
    /\ CallSetState("app", "Connected", "c_start")
    /\ UNCHANGED <<state_, socket_fd_, running_, receive_thread_,
                   reconnect_thread_, delay_ms, config_, fd_local, sock,
                   crashed, pending, last_cb, disc_done, loss_pending,
                   prev_delay, rx_frame, send_mutex_, wire, wire_on, snd_len,
                   total_sent, connected_before>>
    /\ UNCHANGED <<ringVars, paramVars, sessVars, oscVars, lomVars, rtVars, orchVars>>

\* connect(), lines 55-58: running_ = true, receive_thread_ = std::thread(...);
\* assigning to a joinable std::thread calls std::terminate
ConnectStart ==
    /\ ~crashed
    /\ pc["app"] = "c_start"
    /\ running_' = TRUE
    /\ IF receive_thread_ = "joinable"
       THEN /\ crashed' = TRUE
            /\ UNCHANGED <<receive_thread_, pc>>
       ELSE /\ receive_thread_' = "joinable"
            /\ pc' = [pc EXCEPT !["app"] = "idle", !["rx"] = "rl_head"]
            /\ UNCHANGED crashed
    /\ UNCHANGED <<state_, socket_fd_, reconnect_thread_, delay_ms, config_,
                   ss_arg, ss_ret, fd_local, sock, pending, last_cb, disc_done,
                   loss_pending, prev_delay, rx_frame, send_mutex_, wire,
                   wire_on, snd_len, total_sent, connected_before>>
    /\ UNCHANGED <<ringVars, paramVars, sessVars, oscVars, lomVars, rtVars, orchVars>>

\* disconnect(), line 62: running_.store(false)
Disconnect ==
    /\ ~crashed
    /\ pc["app"] = "idle"
    /\ running_' = FALSE
    /\ Goto("app", "d_close")
    /\ UNCHANGED <<state_, socket_fd_, receive_thread_, reconnect_thread_,
                   delay_ms, config_, ss_arg, ss_ret, fd_local, sock, crashed,
                   pending, last_cb, disc_done, loss_pending, prev_delay,
                   rx_frame, send_mutex_, wire, wire_on, snd_len, total_sent,
                   connected_before>>
    /\ UNCHANGED <<ringVars, paramVars, sessVars, oscVars, lomVars, rtVars, orchVars>>

\* disconnect(), line 64: close_socket()
DisconnectClose ==
    /\ ~crashed
    /\ pc["app"] = "d_close"
    /\ sock' = ClosedSock
    /\ wire' = ClosedWire
    /\ socket_fd_' = -1
    /\ Goto("app", "d_join_rx")
    /\ UNCHANGED <<state_, running_, receive_thread_, reconnect_thread_,
                   delay_ms, config_, ss_arg, ss_ret, fd_local, crashed,
                   pending, last_cb, disc_done, loss_pending, prev_delay,
                   rx_frame, send_mutex_, wire_on, snd_len, total_sent,
                   connected_before>>
    /\ UNCHANGED <<ringVars, paramVars, sessVars, oscVars, lomVars, rtVars, orchVars>>

\* disconnect(), lines 66-68: join receive_thread_ if it is joinable
DisconnectJoinReceive ==
    /\ ~crashed
    /\ pc["app"] = "d_join_rx"
    /\ IF receive_thread_ = "joinable"
       THEN /\ pc["rx"] = "exited"
            /\ receive_thread_' = "none"
            /\ pc' = [pc EXCEPT !["app"] = "d_join_rc", !["rx"] = "off"]
       ELSE /\ Goto("app", "d_join_rc")
            /\ UNCHANGED receive_thread_
    /\ UNCHANGED <<state_, socket_fd_, running_, reconnect_thread_, delay_ms,
                   config_, ss_arg, ss_ret, fd_local, sock, crashed, pending,
                   last_cb, disc_done, loss_pending, prev_delay, rx_frame,
                   send_mutex_, wire, wire_on, snd_len, total_sent,
                   connected_before>>
    /\ UNCHANGED <<ringVars, paramVars, sessVars, oscVars, lomVars, rtVars, orchVars>>

\* disconnect(), lines 69-73: join reconnect_thread_ if it is joinable, then
\* set_state(Disconnected)
DisconnectJoinReconnect ==
    /\ ~crashed
    /\ pc["app"] = "d_join_rc"
    /\ IF reconnect_thread_ = "joinable"
       THEN /\ pc["rc"] = "exited"
            /\ reconnect_thread_' = "none"
            /\ pc' = [pc EXCEPT !["app"] = "ss_xchg", !["rc"] = "off"]
       ELSE /\ Goto("app", "ss_xchg")
            /\ UNCHANGED reconnect_thread_
    /\ ss_arg' = [ss_arg EXCEPT !["app"] = "Disconnected"]
    /\ ss_ret' = [ss_ret EXCEPT !["app"] = "d_ret"]
    /\ UNCHANGED <<state_, socket_fd_, running_, receive_thread_, delay_ms,
                   config_, fd_local, sock, crashed, pending, last_cb,
                   disc_done, loss_pending, prev_delay, rx_frame, send_mutex_,
                   wire, wire_on, snd_len, total_sent, connected_before>>
    /\ UNCHANGED <<ringVars, paramVars, sessVars, oscVars, lomVars, rtVars, orchVars>>

\* disconnect(), line 74: disconnect() returns
DisconnectReturn ==
    /\ ~crashed
    /\ pc["app"] = "d_ret"
    /\ disc_done' = TRUE
    /\ Goto("app", "idle")
    /\ UNCHANGED <<state_, socket_fd_, running_, receive_thread_,
                   reconnect_thread_, delay_ms, config_, ss_arg, ss_ret,
                   fd_local, sock, crashed, pending, last_cb, loss_pending,
                   prev_delay, rx_frame, send_mutex_, wire, wire_on, snd_len,
                   total_sent, connected_before>>
    /\ UNCHANGED <<ringVars, paramVars, sessVars, oscVars, lomVars, rtVars, orchVars>>

\* the bytes of a message of len bytes, as the caller passes them to send()
Payload(len) == [i \in 1..len |-> 100 + i]

\* send_framed, line 270: htonl(len) as it lies in memory, which is the order
\* ::send puts it on the wire
HeaderBytes(len) ==
    <<(len \div 16777216) % 256, (len \div 65536) % 256, (len \div 256) % 256, len % 256>>

\* what a send() of len bytes is to put on the wire
FrameBytes(len) == HeaderBytes(len) \o Payload(len)

\* the bytes from..to of the frame of thread t's send(), as they arrive in the
\* kernel: <<thread, position in the frame, byte>>
Written(t, from, to) ==
    [i \in 1..(to - from + 1) |-> <<t, from + i - 1, FrameBytes(snd_len[t])[from + i - 1]>>]

\* ::send on descriptor g appends these bytes to the connection's stream
WireAfter(g, bytes) == IF wire_on THEN [wire EXCEPT ![g] = @ \o bytes] ELSE wire

\* the model stops sending when the streams hold this many bytes
WireRoom(len) == \A f \in Fds : Len(wire[f]) + 4 + len <= MaxWireLen

\* thread t leaves send(): the lock_guard releases send_mutex_, locals are gone
LeaveSend(t) ==
    /\ send_mutex_' = IF send_mutex_ = t THEN "none" ELSE send_mutex_
    /\ snd_len' = [snd_len EXCEPT ![t] = 0]
    /\ total_sent' = [total_sent EXCEPT ![t] = 0]

\* send(message), lines 77-79: the state test
Send(t, len) ==
    /\ ~crashed
    /\ pc[t] = "idle"
    /\ WireRoom(len)
    /\ IF state_ # "Connected"
       THEN /\ Goto(t, "s_false")
            /\ UNCHANGED snd_len
       ELSE /\ Goto(t, "s_check")
            /\ snd_len' = [snd_len EXCEPT ![t] = len]
    /\ UNCHANGED <<state_, socket_fd_, running_, receive_thread_,
                   reconnect_thread_, delay_ms, config_, ss_arg, ss_ret,
                   fd_local, sock, crashed, pending, last_cb, disc_done,
                   loss_pending, prev_delay, rx_frame, send_mutex_, wire,
                   wire_on, total_sent, connected_before>>
    /\ UNCHANGED <<ringVars, paramVars, sessVars, oscVars, lomVars, rtVars, orchVars>>

\* send(), lines 81-82, and send_framed, line 267: take send_mutex_,
\* return false when socket_fd_ < 0
SendCheck(t) ==
    /\ ~crashed
    /\ pc[t] = "s_check"
    /\ send_mutex_ = "none"
    /\ send_mutex_' = t
    /\ IF socket_fd_ < 0
       THEN Goto(t, "s_false")
       ELSE Goto(t, "s_hdr")
    /\ UNCHANGED <<state_, socket_fd_, running_, receive_thread_,
                   reconnect_thread_, delay_ms, config_, ss_arg, ss_ret,
                   fd_local, sock, crashed, pending, last_cb, disc_done,
                   loss_pending, prev_delay, rx_frame, wire, wire_on, snd_len,
                   total_sent, connected_before>>
    /\ UNCHANGED <<ringVars, paramVars, sessVars, oscVars, lomVars, rtVars, orchVars>>

\* ::send on descriptor g can write: the socket is connected, or the peer is
\* gone and the bytes are only buffered
SendCanWrite(g) == IF g < 0 THEN FALSE ELSE sock[g] \in {"up", "down"}

\* ::send on descriptor g can fail: no socket, not connected, or peer gone
SendCanFail(g) == IF g < 0 THEN TRUE ELSE sock[g] # "up"

\* send_framed, lines 270-272 and 278-290: ::send wrote all 4 bytes of the
\* header; with an empty payload the loop is skipped and send() returns true
SendHeader(t) ==
    /\ ~crashed
    /\ pc[t] = "s_hdr"
    /\ SendCanWrite(socket_fd_)
    /\ wire' = WireAfter(socket_fd_, Written(t, 1, 4))
    /\ IF snd_len[t] = 0
       THEN /\ Goto(t, "idle")
            /\ LeaveSend(t)
       ELSE /\ Goto(t, "s_body")
            /\ UNCHANGED <<send_mutex_, snd_len, total_sent>>
    /\ UNCHANGED <<state_, socket_fd_, running_, receive_thread_,
                   reconnect_thread_, delay_ms, config_, ss_arg, ss_ret,
                   fd_local, sock, crashed, pending, last_cb, disc_done,
                   loss_pending, prev_delay, rx_frame, wire_on,
                   connected_before>>
    /\ UNCHANGED <<ringVars, paramVars, sessVars, oscVars, lomVars, rtVars, orchVars>>

\* send_framed, lines 271-275: ::send wrote only k of the 4 header bytes
\* (sent != 4), set_state(Error)
SendHeaderShort(t, k) ==
    /\ ~crashed
    /\ pc[t] = "s_hdr"
    /\ SendCanWrite(socket_fd_)
    /\ wire' = WireAfter(socket_fd_, Written(t, 1, k))
    /\ CallSetState(t, "Error", "s_false")
    /\ UNCHANGED <<state_, socket_fd_, running_, receive_thread_,
                   reconnect_thread_, delay_ms, config_, fd_local, sock,
                   crashed, pending, last_cb, disc_done, loss_pending,
                   prev_delay, rx_frame, send_mutex_, wire_on, snd_len,
                   total_sent, connected_before>>
    /\ UNCHANGED <<ringVars, paramVars, sessVars, oscVars, lomVars, rtVars, orchVars>>

\* send_framed, lines 272-275: writing the header failed
SendHeaderFail(t) ==
    /\ ~crashed
    /\ pc[t] = "s_hdr"
    /\ SendCanFail(socket_fd_)
    /\ CallSetState(t, "Error", "s_false")
    /\ UNCHANGED <<state_, socket_fd_, running_, receive_thread_,
                   reconnect_thread_, delay_ms, config_, fd_local, sock,
                   crashed, pending, last_cb, disc_done, loss_pending,
                   prev_delay, rx_frame, send_mutex_, wire, wire_on, snd_len,
                   total_sent, connected_before>>
    /\ UNCHANGED <<ringVars, paramVars, sessVars, oscVars, lomVars, rtVars, orchVars>>

\* send_framed, lines 279-290: one ::send of the payload loop wrote n bytes;
\* after the last byte send() returns true
SendPayload(t, n) ==
    /\ ~crashed
    /\ pc[t] = "s_body"
    /\ SendCanWrite(socket_fd_)
    /\ n <= snd_len[t] - total_sent[t]
    /\ wire' = WireAfter(socket_fd_, Written(t, 4 + total_sent[t] + 1, 4 + total_sent[t] + n))
    /\ IF total_sent[t] + n < snd_len[t]
       THEN /\ total_sent' = [total_sent EXCEPT ![t] = @ + n]
            /\ UNCHANGED <<pc, send_mutex_, snd_len>>
       ELSE /\ Goto(t, "idle")
            /\ LeaveSend(t)
    /\ UNCHANGED <<state_, socket_fd_, running_, receive_thread_,
                   reconnect_thread_, delay_ms, config_, ss_arg, ss_ret,
                   fd_local, sock, crashed, pending, last_cb, disc_done,
                   loss_pending, prev_delay, rx_frame, wire_on,
                   connected_before>>
    /\ UNCHANGED <<ringVars, paramVars, sessVars, oscVars, lomVars, rtVars, orchVars>>

\* send_framed, lines 283-286: writing the payload failed
SendPayloadFail(t) ==
    /\ ~crashed
    /\ pc[t] = "s_body"
    /\ SendCanFail(socket_fd_)
    /\ CallSetState(t, "Error", "s_false")
    /\ UNCHANGED <<state_, socket_fd_, running_, receive_thread_,
                   reconnect_thread_, delay_ms, config_, fd_local, sock,
                   crashed, pending, last_cb, disc_done, loss_pending,
                   prev_delay, rx_frame, send_mutex_, wire, wire_on, snd_len,
                   total_sent, connected_before>>
    /\ UNCHANGED <<ringVars, paramVars, sessVars, oscVars, lomVars, rtVars, orchVars>>

\* send(), line 78, and send_framed, lines 267, 274 and 285: return false
SendReturnFalse(t) ==
    /\ ~crashed
    /\ pc[t] = "s_false"
    /\ Goto(t, "idle")
    /\ LeaveSend(t)
    /\ UNCHANGED <<state_, socket_fd_, running_, receive_thread_,
                   reconnect_thread_, delay_ms, config_, ss_arg, ss_ret,
                   fd_local, sock, crashed, pending, last_cb, disc_done,
                   loss_pending, prev_delay, rx_frame, wire, wire_on,
                   connected_before>>
    /\ UNCHANGED <<ringVars, paramVars, sessVars, oscVars, lomVars, rtVars, orchVars>>

\* receive_loop, lines 181-188: the loop test, the socket_fd_ test, pfd.fd
RlHead(t) ==
    /\ ~crashed
    /\ pc[t] = "rl_head"
    /\ IF running_ /\ socket_fd_ >= 0
       THEN /\ fd_local' = [fd_local EXCEPT ![t] = socket_fd_]
            /\ Goto(t, "rl_poll")
       ELSE /\ UNCHANGED fd_local
            /\ Goto(t, "exited")
    /\ rx_frame' = NoFrame
    /\ UNCHANGED <<state_, socket_fd_, running_, receive_thread_,
                   reconnect_thread_, delay_ms, config_, ss_arg, ss_ret, sock,
                   crashed, pending, last_cb, disc_done, loss_pending,
                   prev_delay, send_mutex_, wire, wire_on, snd_len, total_sent,
                   connected_before>>
    /\ UNCHANGED <<ringVars, paramVars, sessVars, oscVars, lomVars, rtVars, orchVars>>

\* receive_loop, line 197: poll() timed out
RlPollTimeout(t) ==
    /\ ~crashed
    /\ pc[t] = "rl_poll"
    /\ sock[fd_local[t]] \in {"up", "connecting"}
    /\ Goto(t, "rl_head")
    /\ fd_local' = [fd_local EXCEPT ![t] = -1]
    /\ UNCHANGED <<state_, socket_fd_, running_, receive_thread_,
                   reconnect_thread_, delay_ms, config_, ss_arg, ss_ret, sock,
                   crashed, pending, last_cb, disc_done, loss_pending,
                   prev_delay, rx_frame, send_mutex_, wire, wire_on, snd_len,
                   total_sent, connected_before>>
    /\ UNCHANGED <<ringVars, paramVars, sessVars, oscVars, lomVars, rtVars, orchVars>>

\* receive_loop, lines 191-195: poll() failed, set_state(Error), break
RlPollFail(t) ==
    /\ ~crashed
    /\ pc[t] = "rl_poll"
    /\ CallSetState(t, "Error", "exited")
    /\ fd_local' = [fd_local EXCEPT ![t] = -1]
    /\ UNCHANGED <<state_, socket_fd_, running_, receive_thread_,
                   reconnect_thread_, delay_ms, config_, sock, crashed, pending,
                   last_cb, disc_done, loss_pending, prev_delay, rx_frame,
                   send_mutex_, wire, wire_on, snd_len, total_sent,
                   connected_before>>
    /\ UNCHANGED <<ringVars, paramVars, sessVars, oscVars, lomVars, rtVars, orchVars>>

\* receive_loop, lines 199-200: POLLERR | POLLHUP | POLLNVAL, set_state(Error)
RlPollHup(t) ==
    /\ ~crashed
    /\ pc[t] = "rl_poll"
    /\ sock[fd_local[t]] \in {"closed", "down", "connecting"}
    /\ loss_pending' = TRUE
    /\ CallSetState(t, "Error", "rl_spawn")
    /\ fd_local' = [fd_local EXCEPT ![t] = -1]
    /\ UNCHANGED <<state_, socket_fd_, running_, receive_thread_,
                   reconnect_thread_, delay_ms, config_, sock, crashed, pending,
                   last_cb, disc_done, prev_delay, rx_frame, send_mutex_, wire,
                   wire_on, snd_len, total_sent, connected_before>>
    /\ UNCHANGED <<ringVars, paramVars, sessVars, oscVars, lomVars, rtVars, orchVars>>

\* receive_loop, line 206: POLLIN
RlPollIn(t) ==
    /\ ~crashed
    /\ pc[t] = "rl_poll"
    /\ sock[fd_local[t]] \in {"up", "down"}
    /\ Goto(t, "rl_recv")
    /\ fd_local' = [fd_local EXCEPT ![t] = -1]
    /\ UNCHANGED <<state_, socket_fd_, running_, receive_thread_,
                   reconnect_thread_, delay_ms, config_, ss_arg, ss_ret, sock,
                   crashed, pending, last_cb, disc_done, loss_pending,
                   prev_delay, rx_frame, send_mutex_, wire, wire_on, snd_len,
                   total_sent, connected_before>>
    /\ UNCHANGED <<ringVars, paramVars, sessVars, oscVars, lomVars, rtVars, orchVars>>

\* receive_loop, lines 209-213 and 222-226: recv_exact failed, set_state(Error)
RlRecvFail(t) ==
    /\ ~crashed
    /\ pc[t] = "rl_recv"
    /\ IF socket_fd_ < 0 THEN TRUE ELSE sock[socket_fd_] # "up"
    /\ loss_pending' = TRUE
    /\ CallSetState(t, "Error", "rl_spawn")
    /\ UNCHANGED <<state_, socket_fd_, running_, receive_thread_,
                   reconnect_thread_, delay_ms, config_, fd_local, sock,
                   crashed, pending, last_cb, disc_done, prev_delay, rx_frame,
                   send_mutex_, wire, wire_on, snd_len, total_sent,
                   connected_before>>
    /\ UNCHANGED <<ringVars, paramVars, sessVars, oscVars, lomVars, rtVars, orchVars>>

\* the frame length test, line 216, with the limit off by one
TooLargeOffByOne(length) == length > MaxMessageSize + 1

\* the frame length test, line 216
TooLarge(length) == length > MaxMessageSize

\* receive_loop, lines 215-226: a header with this length was read; a frame
\* that is too large ends the loop, else the payload is read
RlRecvFrame(t, length) ==
    /\ ~crashed
    /\ pc[t] = "rl_recv"
    /\ socket_fd_ >= 0
    /\ sock[socket_fd_] = "up"
    /\ IF TooLarge(length)
       THEN /\ CallSetState(t, "Error", "exited")
            /\ rx_frame' = [by |-> t, length |-> length, payload_read |-> 0,
                            delivered |-> FALSE]
       ELSE /\ Goto(t, "rl_deliver")
            /\ rx_frame' = [by |-> t, length |-> length, payload_read |-> length,
                            delivered |-> FALSE]
            /\ UNCHANGED <<ss_arg, ss_ret>>
    /\ UNCHANGED <<state_, socket_fd_, running_, receive_thread_,
                   reconnect_thread_, delay_ms, config_, fd_local, sock,
                   crashed, pending, last_cb, disc_done, loss_pending,
                   prev_delay, send_mutex_, wire, wire_on, snd_len, total_sent,
                   connected_before>>
    /\ UNCHANGED <<ringVars, paramVars, sessVars, oscVars, lomVars, rtVars, orchVars>>

\* receive_loop, lines 228-231: under callback_mutex_, message_callback_(message)
RlDeliver(t) ==
    /\ ~crashed
    /\ pc[t] = "rl_deliver"
    /\ rx_frame' = [rx_frame EXCEPT !.delivered = TRUE]
    /\ Goto(t, "rl_head")
    /\ UNCHANGED <<state_, socket_fd_, running_, receive_thread_,
                   reconnect_thread_, delay_ms, config_, ss_arg, ss_ret,
                   fd_local, sock, crashed, pending, last_cb, disc_done,
                   loss_pending, prev_delay, send_mutex_, wire, wire_on,
                   snd_len, total_sent, connected_before>>
    /\ UNCHANGED <<ringVars, paramVars, sessVars, oscVars, lomVars, rtVars, orchVars>>

\* receive_loop, lines 202-203, 211-212, 224-225: reconnect_thread_ =
\* std::thread(...), return; assigning to a joinable std::thread calls
\* std::terminate
RlSpawn(t) ==
    /\ ~crashed
    /\ pc[t] = "rl_spawn"
    /\ IF reconnect_thread_ = "joinable"
       THEN /\ crashed' = TRUE
            /\ UNCHANGED <<reconnect_thread_, pc>>
       ELSE /\ reconnect_thread_' = "joinable"
            /\ pc' = [pc EXCEPT ![t] = "exited", !["rc"] = "rcl_start"]
            /\ UNCHANGED crashed
    /\ UNCHANGED <<state_, socket_fd_, running_, receive_thread_, delay_ms,
                   config_, ss_arg, ss_ret, fd_local, sock, pending, last_cb,
                   disc_done, loss_pending, prev_delay, rx_frame, send_mutex_,
                   wire, wire_on, snd_len, total_sent, connected_before>>
    /\ UNCHANGED <<ringVars, paramVars, sessVars, oscVars, lomVars, rtVars, orchVars>>

\* reconnect_loop, line 237: set_state(Reconnecting)
RclStart ==
    /\ ~crashed
    /\ pc["rc"] = "rcl_start"
    /\ CallSetState("rc", "Reconnecting", "rcl_init")
    /\ UNCHANGED <<state_, socket_fd_, running_, receive_thread_,
                   reconnect_thread_, delay_ms, config_, fd_local, sock,
                   crashed, pending, last_cb, disc_done, loss_pending,
                   prev_delay, rx_frame, send_mutex_, wire, wire_on, snd_len,
                   total_sent, connected_before>>
    /\ UNCHANGED <<ringVars, paramVars, sessVars, oscVars, lomVars, rtVars, orchVars>>

\* reconnect_loop, line 239: int delay_ms = config_.retry_delay_ms
RclInit ==
    /\ ~crashed
    /\ pc["rc"] = "rcl_init"
    /\ delay_ms' = config_.retry_delay_ms
    /\ prev_delay' = <<>>
    /\ Goto("rc", "rcl_head")
    /\ UNCHANGED <<state_, socket_fd_, running_, receive_thread_,
                   reconnect_thread_, config_, ss_arg, ss_ret, fd_local, sock,
                   crashed, pending, last_cb, disc_done, loss_pending, rx_frame,
                   send_mutex_, wire, wire_on, snd_len, total_sent,
                   connected_before>>
    /\ UNCHANGED <<ringVars, paramVars, sessVars, oscVars, lomVars, rtVars, orchVars>>

\* reconnect_loop, lines 241-242: the loop test and close_socket()
RclHead ==
    /\ ~crashed
    /\ pc["rc"] = "rcl_head"
    /\ IF running_
       THEN /\ sock' = ClosedSock
            /\ wire' = ClosedWire
            /\ socket_fd_' = -1
            /\ Goto("rc", "rcl_sleep")
       ELSE /\ UNCHANGED <<sock, wire, socket_fd_>>
            /\ Goto("rc", "exited")
    /\ IF running_ THEN UNCHANGED <<delay_ms, prev_delay>>
                   ELSE delay_ms' = 0 /\ prev_delay' = <<>>
    /\ UNCHANGED <<state_, running_, receive_thread_, reconnect_thread_,
                   config_, ss_arg, ss_ret, fd_local, crashed, pending, last_cb,
                   disc_done, loss_pending, rx_frame, send_mutex_, wire_on,
                   snd_len, total_sent, connected_before>>
    /\ UNCHANGED <<ringVars, paramVars, sessVars, oscVars, lomVars, rtVars, orchVars>>

\* reconnect_loop, lines 245-249: sleep delay_ms in slices of 100 ms while
\* running_, then leave the loop if running_ is false
RclSleep ==
    /\ ~crashed
    /\ pc["rc"] = "rcl_sleep"
    /\ IF running_
       THEN /\ prev_delay' = <<delay_ms>>
            /\ Goto("rc", "cs_open")
            /\ UNCHANGED delay_ms
       ELSE /\ prev_delay' = <<>>
            /\ delay_ms' = 0
            /\ Goto("rc", "exited")
    /\ UNCHANGED <<state_, socket_fd_, running_, receive_thread_,
                   reconnect_thread_, config_, ss_arg, ss_ret, fd_local, sock,
                   crashed, pending, last_cb, disc_done, loss_pending, rx_frame,
                   send_mutex_, wire, wire_on, snd_len, total_sent,
                   connected_before>>
    /\ UNCHANGED <<ringVars, paramVars, sessVars, oscVars, lomVars, rtVars, orchVars>>

\* reconnect_loop, lines 251-253: connect_socket() succeeded,
\* set_state(Connected), receive_loop()
RclConnected ==
    /\ ~crashed
    /\ pc["rc"] = "cs_ok"
    /\ loss_pending' = FALSE
    /\ delay_ms' = 0
    /\ prev_delay' = <<>>
    /\ CallSetState("rc", "Connected", "rl_head")
    /\ UNCHANGED <<state_, socket_fd_, running_, receive_thread_,
                   reconnect_thread_, config_, fd_local, sock, crashed, pending,
                   last_cb, disc_done, rx_frame, send_mutex_, wire, wire_on,
                   snd_len, total_sent, connected_before>>
    /\ UNCHANGED <<ringVars, paramVars, sessVars, oscVars, lomVars, rtVars, orchVars>>

Min(a, b) == IF a <= b THEN a ELSE b

\* the next delay, line 258: std::min(delay_ms * 2, max_retry_delay_ms), in int
\* arithmetic that wraps
BackoffDelay(d, max) == Min(WrapDouble(d), max)

\* reconnect_loop, line 258: connect_socket() failed, the delay is doubled.
\* When delay_ms * 2 overflows the behaviour is undefined: the build either
\* wraps or traps.
RclBackoff ==
    /\ ~crashed
    /\ pc["rc"] = "cs_failed"
    /\ \/ /\ delay_ms' = BackoffDelay(delay_ms, config_.max_retry_delay_ms)
          /\ Goto("rc", "rcl_head")
          /\ UNCHANGED crashed
       \/ /\ DoublingOverflows(delay_ms)
          /\ crashed' = TRUE
          /\ UNCHANGED <<delay_ms, pc>>
    /\ UNCHANGED <<state_, socket_fd_, running_, receive_thread_,
                   reconnect_thread_, config_, ss_arg, ss_ret, fd_local, sock,
                   pending, last_cb, disc_done, loss_pending, prev_delay,
                   rx_frame, send_mutex_, wire, wire_on, snd_len, total_sent,
                   connected_before>>
    /\ UNCHANGED <<ringVars, paramVars, sessVars, oscVars, lomVars, rtVars, orchVars>>

\* the peer closes the connection of descriptor f, or the link breaks
PeerClose(f) ==
    /\ ~crashed
    /\ sock[f] = "up"
    /\ sock' = [sock EXCEPT ![f] = "down"]
    /\ UNCHANGED <<state_, socket_fd_, running_, receive_thread_,
                   reconnect_thread_, delay_ms, config_, pc, ss_arg, ss_ret,
                   fd_local, crashed, pending, last_cb, disc_done, loss_pending,
                   prev_delay, rx_frame, send_mutex_, wire, wire_on, snd_len,
                   total_sent, connected_before>>
    /\ UNCHANGED <<ringVars, paramVars, sessVars, oscVars, lomVars, rtVars, orchVars>>

NextTcp ==
    \/ \E t \in Threads : SetStateXchg(t)
    \/ \E t \in Threads : SetStateNotify(t)
    \/ Connect
    \/ \E t \in {"app", "rc"} : ConnectSocketOpen(t)
    \/ \E t \in {"app", "rc"} : ConnectSocketOk(t)
    \/ \E t \in {"app", "rc"} : ConnectSocketFail(t)
    \/ ConnectFailed
    \/ ConnectReturnFalse
    \/ ConnectSucceeded
    \/ ConnectStart
    \/ Disconnect
    \/ DisconnectClose
    \/ DisconnectJoinReceive
    \/ DisconnectJoinReconnect
    \/ DisconnectReturn
    \/ \E len \in MsgLens : Send("snd", len)
    \/ SendCheck("snd")
    \/ SendHeader("snd")
    \/ \E k \in 1..3 : SendHeaderShort("snd", k)
    \/ SendHeaderFail("snd")
    \/ \E n \in 1..MaxMsgLen : SendPayload("snd", n)
    \/ SendPayloadFail("snd")
    \/ SendReturnFalse("snd")
    \/ \E t \in Owned : RlHead(t)
    \/ \E t \in Owned : RlPollTimeout(t)
    \/ \E t \in Owned : RlPollFail(t)
    \/ \E t \in Owned : RlPollHup(t)
    \/ \E t \in Owned : RlPollIn(t)
    \/ \E t \in Owned : RlRecvFail(t)
    \/ \E t \in Owned, length \in FrameLens : RlRecvFrame(t, length)
    \/ \E t \in Owned : RlDeliver(t)
    \/ \E t \in Owned : RlSpawn(t)
    \/ RclStart
    \/ RclInit
    \/ RclHead
    \/ RclSleep
    \/ RclConnected
    \/ RclBackoff
    \/ \E f \in Fds : PeerClose(f)

-----------------------------------------------------------------------------
(* Properties of TcpTransport                                              *)

\* thread t invokes the state callback in this step
StateCallbackStep(t) == pc[t] = "ss_notify" /\ pc'[t] # "ss_notify"

\* thread t invokes the message callback in this step
MessageCallbackStep(t) == pc[t] = "rl_deliver" /\ pc'[t] # "rl_deliver"

\* C6: once disconnect() has returned, every thread the transport started has
\* exited and was joined, and no callback is invoked until connect() is called.
C6_NoCallbackAfterDisconnect ==
    /\ [](disc_done =>
            /\ pc["rx"] = "off" /\ pc["rc"] = "off"
            /\ receive_thread_ = "none" /\ reconnect_thread_ = "none")
    /\ [][disc_done /\ disc_done' =>
            \A t \in Threads : ~StateCallbackStep(t) /\ ~MessageCallbackStep(t)]_vars

\* the first half of C6 alone: the owned threads are gone when disconnect() returned
C6_ThreadsJoined ==
    disc_done =>
        /\ pc["rx"] = "off" /\ pc["rc"] = "off"
        /\ receive_thread_ = "none" /\ reconnect_thread_ = "none"

\* the positions of a thread that detected a loss and is about to start the
\* reconnect thread
AboutToSpawn(t) ==
    \/ pc[t] = "rl_spawn"
    \/ pc[t] \in {"ss_xchg", "ss_notify"} /\ ss_ret[t] = "rl_spawn"

\* the reconnect thread is inside reconnect_loop, before a successful attempt
Reconnecting ==
    \/ pc["rc"] \in {"rcl_start", "rcl_init", "rcl_head", "rcl_sleep",
                       "cs_open", "cs_finish", "cs_failed", "cs_ok"}
    \/ pc["rc"] \in {"ss_xchg", "ss_notify"} /\ ss_ret["rc"] = "rcl_init"

\* C7: after a loss detected by a receive loop (also one that follows a
\* successful reconnection) the transport is in its reconnect loop until an
\* attempt succeeds or disconnect() is called (stated for the states in which
\* the control thread is not inside connect() or disconnect()).
C7_KeepsReconnecting ==
    (loss_pending /\ running_ /\ pc["app"] = "idle") =>
        /\ ~crashed
        /\ (\E t \in Owned : AboutToSpawn(t)) \/ Reconnecting

\* C8: the delays of one reconnect loop start at retry_delay_ms, double after
\* each failed attempt, never decrease and never exceed max_retry_delay_ms.
C8_Backoff ==
    pc["rc"] = "rcl_sleep" =>
        /\ delay_ms <= config_.max_retry_delay_ms
        /\ prev_delay = <<>> => delay_ms = config_.retry_delay_ms
        /\ prev_delay # <<>> =>
            /\ delay_ms >= prev_delay[1]
            /\ delay_ms = IF prev_delay[1] > config_.max_retry_delay_ms \div 2
                              THEN config_.max_retry_delay_ms
                              ELSE 2 * prev_delay[1]

\* C9: a set_state that changes the state invokes the state callback exactly
\* once, with the new state, before it returns; a set_state to the current
\* state changes nothing and invokes no callback; also when two threads ask
\* for the same state at the same time.
C9_SetStateOnce ==
    /\ [](\A t \in Threads :
            /\ pc[t] = "ss_notify" <=> (\E i \in 1..Len(pending) : pending[i] = t)
            /\ \A i, j \in 1..Len(pending) : pending[i] = pending[j] => i = j)
    /\ [][\A t \in Threads :
            /\ (pc[t] = "ss_xchg" /\ pc'[t] # "ss_xchg" /\ state_ = ss_arg[t]) =>
                /\ pc'[t] = ss_ret[t]
                /\ UNCHANGED <<state_, last_cb, pending>>
            /\ (pc[t] = "ss_xchg" /\ pc'[t] # "ss_xchg" /\ state_ # ss_arg[t]) =>
                /\ pc'[t] = "ss_notify"
                /\ state_' = ss_arg[t]
                /\ \A u \in Threads \ {t} : ~StateCallbackStep(u)
            /\ StateCallbackStep(t) =>
                /\ pc'[t] = ss_ret[t]
                /\ last_cb' = ss_arg[t]
                /\ \A u \in Threads \ {t} : ~StateCallbackStep(u)
            /\ (pc'[t] = "ss_notify" /\ pc[t] # "ss_notify") => pc[t] = "ss_xchg"]_vars

\* C9 witness: the sender's set_state(Error) changed the state and has not
\* yet called back, while the receive thread's set_state(Error) has returned
\* without a callback
C9_Witness ==
    /\ pc["snd"] = "ss_notify" /\ ss_arg["snd"] = "Error"
    /\ pc["rx"] = "rl_spawn"
    /\ state_ = "Error"
    /\ last_cb = "Connected"

\* some thread is inside set_state
InTransition == \E t \in Threads : pc[t] \in {"ss_xchg", "ss_notify"}

\* C10: state callbacks are delivered in the order of the state changes, so
\* the state of the last callback is state() whenever no set_state is running.
C10_CallbackOrder ==
    (~InTransition /\ last_cb # "none") => last_cb = state_

\* C10 in the form of the order itself: the thread that calls back is the one
\* whose state change is the oldest not yet reported
C10_CallbackOrderSteps ==
    [][\A t \in Threads : StateCallbackStep(t) => Head(pending) = t]_vars

\* the frame of this iteration announces more than 1 MiB
Oversized == rx_frame.by # "none" /\ rx_frame.length > 1048576

\* C11: a length header above 1 MiB makes the receive loop call
\* set_state(Error), which sets the state to Error; no byte of the announced
\* payload is read and nothing is delivered to the message callback.
C11_OversizedFrame ==
    /\ [](Oversized => rx_frame.payload_read = 0 /\ ~rx_frame.delivered)
    /\ [][\A t \in Owned :
            /\ (pc[t] = "rl_recv" /\ rx_frame'.by = t /\ rx_frame'.length > 1048576) =>
                  pc'[t] = "ss_xchg" /\ ss_arg'[t] = "Error"
            /\ (Oversized /\ rx_frame.by = t /\ pc[t] = "ss_xchg" /\ pc'[t] # "ss_xchg") =>
                  state_' = "Error"
            /\ (Oversized /\ rx_frame.by = t) => ~MessageCallbackStep(t)]_vars

\* C11 witness: the receive thread has rejected a header of 0x00200000 and
\* left the loop, the state is Error
C11_Witness ==
    /\ rx_frame.by = "rx" /\ rx_frame.length = 2097152
    /\ pc["rx"] = "exited"
    /\ state_ = "Error"

\* the thread that read the oversized header is still inside set_state(Error)
ReportingOversized ==
    Oversized /\ pc[rx_frame.by] \in {"ss_xchg", "ss_notify"}

\* C12: after an oversized frame was reported as Error the transport is on the
\* reconnect path, as after a receive failure or a peer close: the reader is
\* about to start the reconnect thread, or the reconnect loop is running
\* (stated for the states in which the stop flag is not set and the control
\* thread is not inside connect() or disconnect()).
C12_OversizedReconnects ==
    (Oversized /\ ~ReportingOversized /\ running_ /\ pc["app"] = "idle") =>
        (\E t \in Owned : AboutToSpawn(t)) \/ Reconnecting

\* C13: no sequence of connect(), disconnect() and send() calls and network
\* events terminates the process; in particular no thread is started into a
\* thread handle that is still joinable.
C13_NeverTerminates == ~crashed

\* thread t is inside receive_loop
InReceiveLoop(t) ==
    \/ pc[t] \in {"rl_head", "rl_poll", "rl_recv", "rl_deliver", "rl_spawn"}
    \/ pc[t] \in {"ss_xchg", "ss_notify"} /\ ss_ret[t] \in {"rl_spawn", "exited"}

\* C14: at most one receive loop and at most one reconnect thread exist at
\* any time; a thread that is about to start the reconnect thread has detected
\* a loss, and the reconnect thread started before has been joined.
C14_OneThreadEach ==
    /\ Cardinality({t \in Owned : InReceiveLoop(t)}) <= 1
    /\ \A t \in Owned : pc[t] = "rl_spawn" =>
            /\ loss_pending
            /\ reconnect_thread_ = "none"

\* the length that a receiver reads from the first four bytes of w
DecodeBigEndian(w) == ((w[1][3] * 256 + w[2][3]) * 256 + w[3][3]) * 256 + w[4][3]

\* the bytes of w were written by one send(), from the first byte of its
\* frame on and in order
OneSend(w) == \A i \in 1..Len(w) : w[i][1] = w[1][1] /\ w[i][2] = i

\* w is whole frames [4-byte big-endian length][payload], each written by one
\* send(), followed by at most the beginning of one more frame
RECURSIVE WellFramed(_)
WellFramed(w) ==
    IF Len(w) < 4 THEN OneSend(w)
    ELSE IF Len(w) < 4 + DecodeBigEndian(w) THEN OneSend(w)
    ELSE /\ OneSend(SubSeq(w, 1, 4 + DecodeBigEndian(w)))
         /\ WellFramed(SubSeq(w, 5 + DecodeBigEndian(w), Len(w)))

\* thread t holds send_mutex_ and is inside send_framed
Writing(t) ==
    \/ pc[t] \in {"s_hdr", "s_body"}
    \/ pc[t] \in {"ss_xchg", "ss_notify"} /\ ss_ret[t] = "s_false"

\* C15: concurrent send() calls are serialized: at most one thread is inside
\* send_framed, and the bytes on every stream are whole frames
\* [4-byte big-endian length][payload], the bytes of one send() never mixed
\* with those of another.
C15_Serialized ==
    /\ Cardinality({t \in Senders : Writing(t)}) <= 1
    /\ \A f \in Fds : WellFramed(wire[f])

\* thread t's send() returns true in this step
ReturnsTrue(t) == pc[t] \in {"s_hdr", "s_body"} /\ pc'[t] = "idle"

\* thread t's ::send puts bytes on the wire in this step
WriteStep(t) == pc[t] \in {"s_hdr", "s_body"} /\ pc'[t] # "ss_notify" /\ wire' # wire

\* the stream w ends with the whole frame of thread t's send() of n bytes
EndsWithFrame(w, t, n) ==
    /\ Len(w) >= 4 + n
    /\ OneSend(SubSeq(w, Len(w) - 3 - n, Len(w)))
    /\ w[Len(w)][1] = t
    /\ DecodeBigEndian(SubSeq(w, Len(w) - 3 - n, Len(w))) = n

\* C16: send() writes nothing and returns false when the state is not
\* Connected; a write that fails sets the state to Error and send() returns
\* false; send() returns true only after the whole header and the whole
\* payload were written; a write that transfers only part of the bytes is
\* continued, not reported as a failure.
C16_SendResult ==
    [][\A t \in Senders :
        /\ (pc[t] = "idle" /\ pc'[t] # "idle" /\ state_ # "Connected") =>
              pc'[t] = "s_false" /\ wire' = wire
        /\ (pc[t] = "s_false" /\ pc'[t] # "s_false") =>
              pc'[t] = "idle" /\ wire' = wire
        /\ (pc[t] \in {"s_hdr", "s_body"} /\ pc'[t] = "ss_xchg" /\ wire' = wire) =>
              ss_arg'[t] = "Error" /\ ss_ret'[t] = "s_false"
        /\ ReturnsTrue(t) => EndsWithFrame(wire'[socket_fd_], t, snd_len[t])
        /\ (WriteStep(t) /\ ~ReturnsTrue(t)) => pc'[t] \in {"s_hdr", "s_body"}]_vars

\* the state changes of a transport that never had a connection
FirstConnectChanges ==
    {<<"Disconnected", "Connecting">>, <<"Connecting", "Error">>,
     <<"Error", "Connecting">>, <<"Error", "Disconnected">>}

\* C17: as long as no connection attempt of the transport has succeeded, a
\* failed connect() takes the state from Disconnected (or from the Error of an
\* earlier failure) to Connecting and then to Error, it returns false with
\* the state Error reported, neither the receive thread nor the reconnect
\* thread exists, and a connection is attempted only inside a connect() call
\* of the caller.
C17_FirstConnectFails ==
    [][~connected_before =>
        /\ receive_thread_ = "none" /\ reconnect_thread_ = "none"
        /\ pc["rx"] = "off" /\ pc["rc"] = "off"
        /\ (state_' # state_) => (<<state_, state_'>> \in FirstConnectChanges)
        /\ (pc["app"] = "c_false") =>
              (state_ = "Error" /\ last_cb = "Error" /\ pending = <<>>)
        /\ (pc["app"] = "ss_xchg" /\ ss_ret["app"] = "c_false") =>
              (state_ = "Connecting" /\ last_cb = "Connecting")
        /\ (socket_fd_' # socket_fd_ /\ socket_fd_' >= 0) =>
              (pc["app"] = "cs_open" /\ state_ = "Connecting")]_vars

\* the first connect() has failed and is about to return false
C17_Witness ==
    /\ ~connected_before
    /\ pc["app"] = "c_false"
    /\ state_ = "Error"
    /\ last_cb = "Error"
    /\ \A f \in Fds : sock[f] = "closed"

\* the control thread is inside disconnect(), after running_.store(false)
InDisconnect ==
    \/ pc["app"] \in {"d_close", "d_join_rx", "d_join_rc", "d_ret"}
    \/ pc["app"] \in {"ss_xchg", "ss_notify"} /\ ss_ret["app"] = "d_ret"

\* C18: every disconnect() that has set the stop flag returns, and at its
\* return the state is Disconnected.
C18_DisconnectTerminates ==
    (pc["app"] = "d_close") ~> (pc["app"] = "d_ret" /\ state_ = "Disconnected")

\* C35: whenever the state is Connected the transport holds an open socket
\* descriptor, also in the middle of disconnect(), of a failing send() and
\* of the reconnect loop.
C35_ConnectedHasSocket == state_ = "Connected" => socket_fd_ >= 0

-----------------------------------------------------------------------------
(* SessionStateMachine (Sunny.Infrastructure/Session, INSM001A)              *)

\* enum class ConnectionState
ConnectionStates == {"Disconnected", "Connecting", "Connected", "Reconnecting", "Error"}

\* enum class SessionMode
SessionModes == {"Idle", "Playing", "Recording", "Overdubbing"}

\* the callbacks the application registers; "empty" is a StateChangeCallback
\* that holds no target
Callbacks == {"f", "g", "empty"}

\* the longest observers_ vector
MaxObservers == 2

\* the arguments of set_disconnected(reason), "" being the default
Reasons == {"", "Connection lost"}

\* the arguments of set_error(error)
Errors == {"Timeout"}

\* to_string(SessionMode)
ToStringMode(mode) ==
    CASE mode = "Idle" -> "idle"
      [] mode = "Playing" -> "playing"
      [] mode = "Recording" -> "recording"
      [] mode = "Overdubbing" -> "overdubbing"

\* "Mode changed to " + std::string(to_string(mode)), as the pair of its parts
ModeMessage(mode) == <<"Mode changed to ", ToStringMode(mode)>>

\* a message that is one string
Text(s) == <<s>>

\* struct SessionStateChange
Change(old_connection, new_connection, old_mode, new_mode, message) ==
    [old_connection |-> old_connection, new_connection |-> new_connection,
     old_mode |-> old_mode, new_mode |-> new_mode, message |-> message]

\* the observers of s that hold a target, in the order of s
Callable(s) == SelectSeq(s, LAMBDA callback : callback # "empty")

\* notify_observers(change) with the bug of running before the members are
\* assigned
NotifyObserversBeforeUpdate(change, connection, mode) ==
    [i \in 1..Len(Callable(observers_)) |->
        [callback |-> Callable(observers_)[i], change |-> change,
         connection |-> connection_state_, mode |-> mode_]]

\* notify_observers(change) while the members hold connection and mode: the
\* calls it makes, in order
NotifyObservers(change, connection, mode) ==
    [i \in 1..Len(Callable(observers_)) |->
        [callback |-> Callable(observers_)[i], change |-> change,
         connection |-> connection, mode |-> mode]]

\* the members as an operation finds them
Members == [connection |-> connection_state_, mode |-> mode_, observers |-> observers_]

\* the machine after construction
InitSess ==
    /\ connection_state_ = "Disconnected"
    /\ mode_ = "Idle"
    /\ observers_ = <<>>
    /\ s_op = [name |-> "none", arg |-> ""]
    /\ s_before = [connection |-> "Disconnected", mode |-> "Idle", observers |-> <<>>]
    /\ s_invoked = <<>>

\* the operation name(arg) runs under mutex_ from the members as they are
Called(name, arg) ==
    /\ s_op' = [name |-> name, arg |-> arg]
    /\ s_before' = Members

\* set_connected()
SetConnected ==
    /\ Called("set_connected", "")
    /\ IF connection_state_ = "Connected"
       THEN /\ UNCHANGED <<connection_state_, mode_>>
            /\ s_invoked' = <<>>
       ELSE /\ connection_state_' = "Connected"
            /\ s_invoked' = NotifyObservers(
                   Change(connection_state_, "Connected", mode_, mode_,
                          Text("Connected to Ableton Live")),
                   "Connected", mode_)
            /\ UNCHANGED mode_
    /\ UNCHANGED observers_
    /\ UNCHANGED <<ringVars, paramVars, tcpVars, oscVars, lomVars, rtVars, orchVars>>

\* set_disconnected(reason)
SetDisconnected(reason) ==
    /\ Called("set_disconnected", reason)
    /\ IF connection_state_ = "Disconnected"
       THEN /\ UNCHANGED <<connection_state_, mode_>>
            /\ s_invoked' = <<>>
       ELSE /\ connection_state_' = "Disconnected"
            /\ mode_' = "Idle"
            /\ s_invoked' = NotifyObservers(
                   Change(connection_state_, "Disconnected", mode_, "Idle",
                          Text(IF reason = "" THEN "Disconnected" ELSE reason)),
                   "Disconnected", "Idle")
    /\ UNCHANGED observers_
    /\ UNCHANGED <<ringVars, paramVars, tcpVars, oscVars, lomVars, rtVars, orchVars>>

\* set_connecting()
SetConnecting ==
    /\ Called("set_connecting", "")
    /\ connection_state_' = "Connecting"
    /\ s_invoked' = NotifyObservers(
           Change(connection_state_, "Connecting", mode_, mode_, Text("Connecting...")),
           "Connecting", mode_)
    /\ UNCHANGED <<mode_, observers_>>
    /\ UNCHANGED <<ringVars, paramVars, tcpVars, oscVars, lomVars, rtVars, orchVars>>

\* set_error(error)
SetError(error) ==
    /\ Called("set_error", error)
    /\ connection_state_' = "Error"
    /\ mode_' = "Idle"
    /\ s_invoked' = NotifyObservers(
           Change(connection_state_, "Error", mode_, "Idle", Text(error)),
           "Error", "Idle")
    /\ UNCHANGED observers_
    /\ UNCHANGED <<ringVars, paramVars, tcpVars, oscVars, lomVars, rtVars, orchVars>>

\* the test of set_mode, line 93, with the bug of never returning early
AlreadyInModeNever(mode) == FALSE

\* the test of set_mode, line 93: mode_ == mode returns early
AlreadyInMode(mode) == mode_ = mode

\* set_mode(mode), called as the operation name
SetModeAs(name, mode) ==
    /\ Called(name, mode)
    /\ IF AlreadyInMode(mode)
       THEN /\ UNCHANGED mode_
            /\ s_invoked' = <<>>
       ELSE /\ mode_' = mode
            /\ s_invoked' = NotifyObservers(
                   Change(connection_state_, connection_state_, mode_, mode,
                          ModeMessage(mode)),
                   connection_state_, mode)
    /\ UNCHANGED <<connection_state_, observers_>>
    /\ UNCHANGED <<ringVars, paramVars, tcpVars, oscVars, lomVars, rtVars, orchVars>>

\* set_mode(mode)
SetMode(mode) == SetModeAs("set_mode", mode)

\* start_playing()
StartPlaying == SetModeAs("start_playing", "Playing")

\* stop_playing()
StopPlaying == SetModeAs("stop_playing", "Idle")

\* start_recording()
StartRecording == SetModeAs("start_recording", "Recording")

\* stop_recording()
StopRecording == SetModeAs("stop_recording", "Playing")

\* add_observer(callback)
AddObserver(callback) ==
    /\ Len(observers_) < MaxObservers
    /\ Called("add_observer", callback)
    /\ observers_' = Append(observers_, callback)
    /\ s_invoked' = <<>>
    /\ UNCHANGED <<connection_state_, mode_>>
    /\ UNCHANGED <<ringVars, paramVars, tcpVars, oscVars, lomVars, rtVars, orchVars>>

\* clear_observers()
ClearObservers ==
    /\ Called("clear_observers", "")
    /\ observers_' = <<>>
    /\ s_invoked' = <<>>
    /\ UNCHANGED <<connection_state_, mode_>>
    /\ UNCHANGED <<ringVars, paramVars, tcpVars, oscVars, lomVars, rtVars, orchVars>>

NextSession ==
    \/ SetConnected
    \/ \E reason \in Reasons : SetDisconnected(reason)
    \/ SetConnecting
    \/ \E error \in Errors : SetError(error)
    \/ \E mode \in SessionModes : SetMode(mode)
    \/ StartPlaying
    \/ StopPlaying
    \/ StartRecording
    \/ StopRecording
    \/ \E callback \in Callbacks : AddObserver(callback)
    \/ ClearObservers

-----------------------------------------------------------------------------
(* SessionStateMachine: properties                                           *)

\* the operations that are a call of set_mode
SetModeOps == {"set_mode", "start_playing", "stop_playing", "start_recording",
               "stop_recording"}

\* the callbacks of the calls in s, in order
InvokedCallbacks(s) == [i \in 1..Len(s) |-> s[i].callback]

\* C19: set_mode(m) when the mode is already m changes no member and invokes
\* no observer; with another mode it sets the mode, leaves the connection
\* state and the observers alone and invokes each observer once, in order,
\* with the change from the old mode to m.
C19_SetMode ==
    s_op.name \in SetModeOps =>
        /\ connection_state_ = s_before.connection
        /\ observers_ = s_before.observers
        /\ IF s_before.mode = s_op.arg
           THEN mode_ = s_before.mode /\ s_invoked = <<>>
           ELSE /\ mode_ = s_op.arg
                /\ InvokedCallbacks(s_invoked) = Callable(s_before.observers)
                /\ \A i \in 1..Len(s_invoked) :
                      /\ s_invoked[i].change.old_connection = s_before.connection
                      /\ s_invoked[i].change.new_connection = s_before.connection
                      /\ s_invoked[i].change.old_mode = s_before.mode
                      /\ s_invoked[i].change.new_mode = s_op.arg

\* set_mode was called with the current mode, not Idle, while connected and
\* with an observer registered
C19_Witness ==
    /\ s_op.name = "set_mode"
    /\ s_before.mode = s_op.arg
    /\ mode_ = "Recording"
    /\ connection_state_ = "Connected"
    /\ Callable(observers_) # <<>>
    /\ s_invoked = <<>>

\* C20: when set_disconnected() has returned, the mode is Idle.
C20_DisconnectedIdle ==
    s_op.name = "set_disconnected" => mode_ = "Idle"

\* C39: in every reachable state, a connection state of Disconnected or Error
\* goes with the mode Idle.
C39_OfflineIdle ==
    connection_state_ \in {"Disconnected", "Error"} => mode_ = "Idle"

\* the operations that set the connection state, with the state they set
TargetOf(name) ==
    CASE name = "set_connected" -> "Connected"
      [] name = "set_connecting" -> "Connecting"
      [] name = "set_disconnected" -> "Disconnected"
      [] name = "set_error" -> "Error"

\* C21: set_connected, set_connecting and set_disconnected called in their
\* target connection state change no member and invoke no observer;
\* set_error invokes every observer on every call.
C21_NoOpInTarget ==
    /\ (s_op.name \in {"set_connected", "set_connecting", "set_disconnected"}
          /\ s_before.connection = TargetOf(s_op.name)) =>
             (Members = s_before /\ s_invoked = <<>>)
    /\ (s_op.name = "set_error") =>
             (InvokedCallbacks(s_invoked) = Callable(s_before.observers))

\* the last operation changed the connection state or the mode
StateChanging ==
    /\ s_op.name # "none"
    /\ <<connection_state_, mode_>> # <<s_before.connection, s_before.mode>>

\* C22: an operation that changes the connection state or the mode invokes
\* every observer registered when it was called once, in registration
\* order, after the members were assigned, with a change whose old values
\* are the members before the operation and whose new values are the
\* members after it; add_observer and clear_observers invoke nobody and
\* clear_observers leaves no observer registered.
C22_ObserversNotified ==
    /\ StateChanging =>
          /\ InvokedCallbacks(s_invoked) = Callable(s_before.observers)
          /\ \A i \in 1..Len(s_invoked) :
                /\ s_invoked[i].change.old_connection = s_before.connection
                /\ s_invoked[i].change.old_mode = s_before.mode
                /\ s_invoked[i].change.new_connection = connection_state_
                /\ s_invoked[i].change.new_mode = mode_
                /\ s_invoked[i].connection = connection_state_
                /\ s_invoked[i].mode = mode_
    /\ (s_op.name = "clear_observers") => (observers_ = <<>> /\ s_invoked = <<>>)
    /\ (s_op.name = "add_observer") => (s_invoked = <<>>)
    /\ (s_before.observers = <<>>) => (s_invoked = <<>>)

\* set_disconnected changed both the connection state and the mode and
\* invoked two different observers
C22_Witness ==
    /\ s_op.name = "set_disconnected"
    /\ s_before.connection = "Connected"
    /\ s_before.mode = "Recording"
    /\ InvokedCallbacks(s_invoked) = <<"g", "f">>

-----------------------------------------------------------------------------
(* OscWriter / OscReader (Sunny.Infrastructure/Protocol, WPOSC001A)          *)
(* A byte is a number in 0..255, a string_view or span the sequence of its  *)
(* bytes, a float its 32-bit pattern read as an int32.                      *)

\* constexpr std::size_t OSC_MAX_ARGS = 64
OSC_MAX_ARGS == 64

\* the characters '/', ',', 'i', 'f', 's', 'b'
Slash == 47
Comma == 44
TagInt32 == 105
TagFloat32 == 102
TagString == 115
TagBlob == 98

\* what the caller's buffer holds before the writer writes to it
Untouched == 170

\* the arguments after which the application only adds int32 0
MaxVariedArgs == 2

\* the sizes of the caller's buffer: none, too small for any message, room
\* for short messages, room for OSC_MAX_ARGS int32 arguments
BufferSizes == {0, 4, 12, 16, 20, 4 + 68 + 4 * OSC_MAX_ARGS}

\* the addresses passed to begin_message: "", "a", "/", "/abc", "/a\0b"
Addresses == {<<>>, <<97>>, <<Slash>>, <<Slash, 97, 98, 99>>, <<Slash, 97, 0, 98>>}

\* the int32 arguments: 0, -1, 1, INT32_MIN, INT32_MAX
Int32Values == {0, -1, 1, -IntMax - 1, IntMax}

\* the float arguments, as bit patterns: 140.0f (0x430C0000), -0.0f
Float32Values == {1124859904, -IntMax - 1}

\* the string arguments: "", "abc", "abcd", "a\0b"
Strings == {<<>>, <<97, 98, 99>>, <<97, 98, 99, 100>>, <<97, 0, 98>>}

\* the blob arguments: empty, one byte, five bytes
Blobs == {<<>>, <<255>>, <<1, 0, 3, 4, 5>>}

\* align4: (pos + 3) & ~3
Align4(pos) == ((pos + 3) \div 4) * 4

\* n zero bytes
Zeros(n) == [i \in 1..n |-> 0]

\* write_int32_be / write_float32_be: (v >> 24) & 0xFF, (v >> 16) & 0xFF,
\* (v >> 8) & 0xFF, v & 0xFF
Int32Bytes(v) ==
    <<(v \div 16777216) % 256, (v \div 65536) % 256, (v \div 256) % 256, v % 256>>

\* write_padded_string with the bug of leaving out the terminator:
\* align4(s.size())
PaddedStringNoTerminator(s) == s \o Zeros(Align4(Len(s)) - Len(s))

\* write_padded_string: the bytes of s, then zeros up to align4(s.size() + 1)
PaddedString(s) == s \o Zeros(Align4(Len(s) + 1) - Len(s))

\* the type tag string of end_message: ',' and one tag per argument, zeros up
\* to align4(tag_len + 1)
TypeTagString(args) == PaddedString(<<Comma>> \o [i \in 1..Len(args) |-> args[i].tag])

\* the pieces end_message writes for one argument, each after its own
\* has_space test
ArgumentChunks(arg) ==
    CASE arg.tag = TagInt32 -> <<Int32Bytes(arg.value)>>
      [] arg.tag = TagFloat32 -> <<Int32Bytes(arg.value)>>
      [] arg.tag = TagString -> <<PaddedString(arg.value)>>
      [] arg.tag = TagBlob ->
            <<Int32Bytes(Len(arg.value)),
              arg.value \o Zeros(Align4(Len(arg.value)) - Len(arg.value))>>

\* the pieces of all arguments from the i-th on, in order
RECURSIVE AllArgumentChunks(_, _)
AllArgumentChunks(args, i) ==
    IF i > Len(args) THEN <<>>
    ELSE ArgumentChunks(args[i]) \o AllArgumentChunks(args, i + 1)

\* one piece with the bug of no has_space test: the bytes go to write_pos_
\* and beyond the end of the buffer
WriteChunkUnchecked(w, bytes) ==
    [w EXCEPT !.buffer_ = SubSeq(w.buffer_, 1, w.write_pos_) \o bytes
                          \o SubSeq(w.buffer_, w.write_pos_ + Len(bytes) + 1, Len(w.buffer_)),
              !.write_pos_ = @ + Len(bytes)]

\* one piece: has_space(Len(bytes)) fails and sets error_, or the bytes go to
\* buffer_ at write_pos_
WriteChunk(w, bytes) ==
    IF w.write_pos_ + Len(bytes) <= Len(w.buffer_)
    THEN [w EXCEPT !.buffer_ = [i \in 1..Len(w.buffer_) |->
                                   IF i > w.write_pos_ /\ i <= w.write_pos_ + Len(bytes)
                                   THEN bytes[i - w.write_pos_] ELSE w.buffer_[i]],
                   !.write_pos_ = @ + Len(bytes)]
    ELSE [w EXCEPT !.error_ = TRUE]

\* the pieces in order, until one sets error_
RECURSIVE WriteChunks(_, _)
WriteChunks(w, chunks) ==
    IF chunks = <<>> \/ w.error_ THEN w
    ELSE WriteChunks(WriteChunk(w, Head(chunks)), Tail(chunks))

\* OscWriter(buffer) over a buffer of this size; args_ holds the first
\* arg_count_ entries of the array
NewWriter(n) ==
    [buffer_ |-> [i \in 1..n |-> Untouched], write_pos_ |-> 0, args_ |-> <<>>,
     address_ |-> <<>>, error_ |-> FALSE, message_started_ |-> FALSE,
     message_ended_ |-> FALSE]

\* no OscReader exists
NoReader == [packet_ |-> <<>>, address_ |-> <<>>, type_tag_ |-> <<>>,
             arguments_ |-> <<>>, error_ |-> FALSE, made |-> FALSE]

InitOsc ==
    /\ \E n \in BufferSizes : writer = NewWriter(n)
    /\ reader = NoReader
    /\ osc_op = [name |-> "none", arg |-> <<>>, before |-> writer]
    /\ received = <<>>

\* the codec is not in use
InitOscIdle ==
    /\ writer = NewWriter(0)
    /\ reader = NoReader
    /\ osc_op = [name |-> "none", arg |-> <<>>, before |-> writer]
    /\ received = <<>>

\* the writer operation name(arg) turns the writer into w; a reader over the
\* old buffer contents is gone
WriterCall(name, arg, w) ==
    /\ writer' = w
    /\ reader' = NoReader
    /\ osc_op' = [name |-> name, arg |-> arg, before |-> writer]
    /\ UNCHANGED received
    /\ UNCHANGED <<ringVars, paramVars, tcpVars, sessVars, lomVars, rtVars, orchVars>>

\* begin_message(address)
BeginMessage(address) ==
    WriterCall("begin_message", address,
        IF writer.message_started_ THEN [writer EXCEPT !.error_ = TRUE]
        ELSE IF address = <<>> THEN [writer EXCEPT !.error_ = TRUE]
        ELSE IF address[1] # Slash THEN [writer EXCEPT !.error_ = TRUE]
        ELSE [writer EXCEPT !.message_started_ = TRUE, !.write_pos_ = 0,
                            !.args_ = <<>>, !.address_ = address])

\* add_* with the bug of testing arg_count_ > OSC_MAX_ARGS
AddArgumentOneMore(name, tag, v) ==
    WriterCall(name, <<v>>,
        IF writer.error_ \/ ~writer.message_started_ \/ writer.message_ended_
        THEN [writer EXCEPT !.error_ = TRUE]
        ELSE IF Len(writer.args_) > OSC_MAX_ARGS THEN [writer EXCEPT !.error_ = TRUE]
        ELSE [writer EXCEPT !.args_ = Append(@, [tag |-> tag, value |-> v])])

\* add_* with the bug of not testing error_
AddArgumentIgnoringError(name, tag, v) ==
    WriterCall(name, <<v>>,
        IF ~writer.message_started_ \/ writer.message_ended_
        THEN [writer EXCEPT !.error_ = TRUE]
        ELSE IF Len(writer.args_) >= OSC_MAX_ARGS THEN [writer EXCEPT !.error_ = TRUE]
        ELSE [writer EXCEPT !.args_ = Append(@, [tag |-> tag, value |-> v])])

\* add_int32, add_float32, add_string, add_blob: the same tests, then the
\* entry args_[arg_count_++]
AddArgument(name, tag, v) ==
    WriterCall(name, <<v>>,
        IF writer.error_ \/ ~writer.message_started_ \/ writer.message_ended_
        THEN [writer EXCEPT !.error_ = TRUE]
        ELSE IF Len(writer.args_) >= OSC_MAX_ARGS THEN [writer EXCEPT !.error_ = TRUE]
        ELSE [writer EXCEPT !.args_ = Append(@, [tag |-> tag, value |-> v])])

\* the application adds varied arguments first and then only int32 0 to an
\* all-zero list
MayAdd(tag, v) ==
    \/ Len(writer.args_) < MaxVariedArgs
    \/ /\ tag = TagInt32 /\ v = 0
       /\ \A i \in 1..Len(writer.args_) :
             writer.args_[i].tag = TagInt32 /\ writer.args_[i].value = 0

\* add_int32(v)
AddInt32(v) == MayAdd(TagInt32, v) /\ AddArgument("add_int32", TagInt32, v)

\* add_float32(v)
AddFloat32(v) == MayAdd(TagFloat32, v) /\ AddArgument("add_float32", TagFloat32, v)

\* add_string(s)
AddString(s) == MayAdd(TagString, s) /\ AddArgument("add_string", TagString, s)

\* add_blob(data)
AddBlob(data) == MayAdd(TagBlob, data) /\ AddArgument("add_blob", TagBlob, data)

\* end_message() with the bug of not testing message_ended_
EndMessageAgain ==
    WriterCall("end_message", <<>>,
        IF writer.error_ \/ ~writer.message_started_
        THEN [writer EXCEPT !.error_ = TRUE]
        ELSE LET w == WriteChunks(writer,
                          <<PaddedString(writer.address_), TypeTagString(writer.args_)>>
                          \o AllArgumentChunks(writer.args_, 1))
             IN  IF w.error_ THEN w ELSE [w EXCEPT !.message_ended_ = TRUE])

\* end_message()
EndMessage ==
    WriterCall("end_message", <<>>,
        IF writer.error_ \/ ~writer.message_started_ \/ writer.message_ended_
        THEN [writer EXCEPT !.error_ = TRUE]
        ELSE LET w == WriteChunks(writer,
                          <<PaddedString(writer.address_), TypeTagString(writer.args_)>>
                          \o AllArgumentChunks(writer.args_, 1))
             IN  IF w.error_ THEN w ELSE [w EXCEPT !.message_ended_ = TRUE])

\* packet() with the bug of not testing error_
PacketIgnoringError(w) ==
    IF ~w.message_ended_ THEN <<>> ELSE SubSeq(w.buffer_, 1, w.write_pos_)

\* packet()
Packet(w) ==
    IF w.error_ \/ ~w.message_ended_ THEN <<>> ELSE SubSeq(w.buffer_, 1, w.write_pos_)

\* read_string(pos) on packet p: error, result and the new pos
ReadString(p, pos) ==
    IF pos >= Len(p) THEN [error |-> TRUE, result |-> <<>>, pos |-> pos]
    ELSE LET max_len == Len(p) - pos
             len == CHOOSE k \in 0..max_len :
                        /\ k = max_len \/ p[pos + k + 1] = 0
                        /\ \A j \in 0..(k - 1) : p[pos + j + 1] # 0
         IN  IF len = max_len THEN [error |-> TRUE, result |-> <<>>, pos |-> pos]
             ELSE [error |-> FALSE, result |-> SubSeq(p, pos + 1, pos + len),
                   pos |-> pos + Align4(len + 1)]

\* read_int32(pos) / read_float32(pos) on packet p: (b0 << 24) | (b1 << 16) |
\* (b2 << 8) | b3 as a 32-bit two's complement value
ReadInt32(p, pos) ==
    IF pos + 4 > Len(p) THEN [error |-> TRUE, result |-> 0, pos |-> pos]
    ELSE [error |-> FALSE,
          result |-> (IF p[pos + 1] >= 128 THEN p[pos + 1] - 256 ELSE p[pos + 1]) * 16777216
                     + p[pos + 2] * 65536 + p[pos + 3] * 256 + p[pos + 4],
          pos |-> pos + 4]

\* the loop of parse, lines 282-333, from tag i of type_tag_ (counted from
\* 0) at position pos
RECURSIVE ParseArguments(_, _, _)
ParseArguments(r, pos, i) ==
    LET p == r.packet_
        failed == [r EXCEPT !.error_ = TRUE]
        tag == r.type_tag_[i + 1]
        next(type, value, newpos) ==
            ParseArguments([r EXCEPT !.arguments_ = Append(@, [type |-> type, value |-> value])],
                           newpos, i + 1)
    IN  IF i >= Len(r.type_tag_) THEN r
        ELSE IF pos > Len(p) THEN failed
        ELSE IF tag = TagInt32 \/ tag = TagFloat32 THEN
                 LET v == ReadInt32(p, pos)
                 IN  IF v.error THEN failed
                     ELSE next(IF tag = TagInt32 THEN "Int32" ELSE "Float32", v.result, v.pos)
        ELSE IF tag = TagString THEN
                 LET s == ReadString(p, pos)
                 IN  IF s.error THEN failed ELSE next("String", s.result, s.pos)
        ELSE IF tag = TagBlob THEN
                 LET n == ReadInt32(p, pos)
                 IN  IF n.error THEN failed
                     ELSE IF n.result < 0 THEN failed
                     ELSE IF n.result > Len(p) - n.pos THEN failed
                     ELSE next("Blob", SubSeq(p, n.pos + 1, n.pos + n.result),
                               n.pos + Align4(n.result))
        ELSE failed

\* OscReader(packet) with the bug of asking for a type tag string
OscReaderTagsRequired(packet) ==
    LET r == [NoReader EXCEPT !.packet_ = packet, !.made = TRUE]
        a == ReadString(packet, 0)
        t == ReadString(packet, a.pos)
    IN  IF packet = <<>> THEN [r EXCEPT !.error_ = TRUE]
        ELSE IF a.error THEN [r EXCEPT !.error_ = TRUE]
        ELSE IF a.result = <<>> THEN [r EXCEPT !.error_ = TRUE]
        ELSE IF a.result[1] # Slash THEN [r EXCEPT !.address_ = a.result, !.error_ = TRUE]
        ELSE IF t.error THEN [r EXCEPT !.address_ = a.result, !.error_ = TRUE]
        ELSE IF t.result = <<>>
             THEN [r EXCEPT !.address_ = a.result, !.error_ = TRUE]
        ELSE IF t.result[1] # Comma
             THEN [r EXCEPT !.address_ = a.result, !.type_tag_ = t.result, !.error_ = TRUE]
        ELSE ParseArguments([r EXCEPT !.address_ = a.result, !.type_tag_ = t.result],
                            t.pos, 1)

\* OscReader(packet) with the bug of not testing the ','
OscReaderAnyTagStart(packet) ==
    LET r == [NoReader EXCEPT !.packet_ = packet, !.made = TRUE]
        a == ReadString(packet, 0)
        t == ReadString(packet, a.pos)
    IN  IF packet = <<>> THEN [r EXCEPT !.error_ = TRUE]
        ELSE IF a.error THEN [r EXCEPT !.error_ = TRUE]
        ELSE IF a.result = <<>> THEN [r EXCEPT !.error_ = TRUE]
        ELSE IF a.result[1] # Slash THEN [r EXCEPT !.address_ = a.result, !.error_ = TRUE]
        ELSE IF a.pos >= Len(packet) THEN [r EXCEPT !.address_ = a.result]
        ELSE IF t.error THEN [r EXCEPT !.address_ = a.result, !.error_ = TRUE]
        ELSE IF t.result = <<>>
             THEN [r EXCEPT !.address_ = a.result, !.error_ = TRUE]
        ELSE ParseArguments([r EXCEPT !.address_ = a.result, !.type_tag_ = t.result],
                            t.pos, 1)

\* OscReader(packet): the constructor and parse()
OscReader(packet) ==
    LET r == [NoReader EXCEPT !.packet_ = packet, !.made = TRUE]
        a == ReadString(packet, 0)
        t == ReadString(packet, a.pos)
    IN  IF packet = <<>> THEN [r EXCEPT !.error_ = TRUE]
        ELSE IF a.error THEN [r EXCEPT !.error_ = TRUE]
        ELSE IF a.result = <<>> THEN [r EXCEPT !.error_ = TRUE]
        ELSE IF a.result[1] # Slash THEN [r EXCEPT !.address_ = a.result, !.error_ = TRUE]
        ELSE IF a.pos >= Len(packet) THEN [r EXCEPT !.address_ = a.result]
        ELSE IF t.error THEN [r EXCEPT !.address_ = a.result, !.error_ = TRUE]
        ELSE IF t.result = <<>>
             THEN [r EXCEPT !.address_ = a.result, !.error_ = TRUE]
        ELSE IF t.result[1] # Comma
             THEN [r EXCEPT !.address_ = a.result, !.type_tag_ = t.result, !.error_ = TRUE]
        ELSE ParseArguments([r EXCEPT !.address_ = a.result, !.type_tag_ = t.result],
                            t.pos, 1)

\* the application constructs an OscReader over the bytes p
ReadBytes(p) ==
    /\ reader' = OscReader(p)
    /\ osc_op' = [name |-> "read", arg |-> p, before |-> writer]
    /\ UNCHANGED <<writer, received>>
    /\ UNCHANGED <<ringVars, paramVars, tcpVars, sessVars, lomVars, rtVars, orchVars>>

\* the application decodes what packet() returns
ReadPacket == ReadBytes(Packet(writer))

\* the most bytes that follow the start of a message in the received bytes
MaxTail == 4

\* the values of those bytes: null, small and large numbers, ',', '/', 'i',
\* 's', 'x'
TailBytes == {0, 1, Comma, Slash, TagInt32, TagString, 120, 255}

\* starts of messages: nothing, /a, /a with the tags "", i, s, b, a blob
\* length short of its last byte, /a ,si "ab", /abc short of its
\* terminator, /a ,ifs short of its terminator
MessageStarts ==
    LET a == <<Slash, 97, 0, 0>>
    IN  {<<>>, a,
         a \o <<Comma, 0, 0, 0>>,
         a \o <<Comma, TagInt32, 0, 0>>,
         a \o <<Comma, TagString, 0, 0>>,
         a \o <<Comma, TagBlob, 0, 0>>,
         a \o <<Comma, TagBlob, 0, 0, 0, 0, 0>>,
         a \o <<Comma, TagString, TagInt32, 0, 97, 98, 0, 0>>,
         <<Slash, 97, 98, 99>>,
         a \o <<Comma, TagInt32, TagFloat32, TagString>>}

\* the bytes are the start of a message and fewer than MaxTail more
MayReceive(bytes) ==
    \E start \in MessageStarts :
        /\ Len(start) <= Len(bytes)
        /\ SubSeq(bytes, 1, Len(start)) = start
        /\ Len(bytes) - Len(start) < MaxTail

\* the application holds the start of a message; no writer is in use
InitOscReader ==
    /\ writer = NewWriter(0)
    /\ reader = NoReader
    /\ received \in MessageStarts
    /\ osc_op = [name |-> "none", arg |-> <<>>, before |-> writer]

\* one more byte arrives
ReceiveByte(b) ==
    /\ MayReceive(received)
    /\ received' = Append(received, b)
    /\ reader' = NoReader
    /\ osc_op' = [name |-> "receive", arg |-> <<b>>, before |-> writer]
    /\ UNCHANGED writer
    /\ UNCHANGED <<ringVars, paramVars, tcpVars, sessVars, lomVars, rtVars, orchVars>>

\* the application decodes the bytes it holds
ReadReceived == ReadBytes(received)

NextOscReader ==
    \/ \E b \in TailBytes : ReceiveByte(b)
    \/ ReadReceived

NextOsc ==
    \/ \E address \in Addresses : BeginMessage(address)
    \/ \E v \in Int32Values : AddInt32(v)
    \/ \E v \in Float32Values : AddFloat32(v)
    \/ \E s \in Strings : AddString(s)
    \/ \E data \in Blobs : AddBlob(data)
    \/ EndMessage
    \/ ReadPacket

-----------------------------------------------------------------------------
(* OscWriter / OscReader: properties                                         *)

\* OscArgument::Type of a type tag
TypeOfTag(tag) ==
    CASE tag = TagInt32 -> "Int32"
      [] tag = TagFloat32 -> "Float32"
      [] tag = TagString -> "String"
      [] tag = TagBlob -> "Blob"

\* the arguments staged in w as the reader should return them
StagedArguments(w) ==
    [i \in 1..Len(w.args_) |-> [type |-> TypeOfTag(w.args_[i].tag), value |-> w.args_[i].value]]

\* a reader was made over the packet of a message that was encoded without
\* error
DecodedEncoded ==
    /\ osc_op.name = "read"
    /\ writer.message_ended_
    /\ ~writer.error_

\* C23: decoding the packet of a message that was encoded without error
\* gives no error, the same address and the same arguments: number, types,
\* order and values.
C23_RoundTrip ==
    DecodedEncoded =>
        /\ ~reader.error_
        /\ reader.address_ = writer.address_
        /\ reader.arguments_ = StagedArguments(writer)

\* an OSC string: the bytes, one to four null bytes, a multiple of 4 in all
OscString(s) == s \o Zeros(4 - (Len(s) % 4))

\* the bytes of a blob, padded with zero to three null bytes
OscBlobData(d) == d \o Zeros((4 - (Len(d) % 4)) % 4)

\* the strings and blobs of the message staged in w, in packet order, each
\* with the bytes the wire format asks for; an int32 or float32 is 4 bytes
\* of any value, a blob's length field too
PacketFields(w) ==
    <<[bytes |-> OscString(w.address_), fixed |-> TRUE],
      [bytes |-> OscString(<<Comma>> \o [i \in 1..Len(w.args_) |-> w.args_[i].tag]),
       fixed |-> TRUE]>>
    \o [i \in 1..Len(w.args_) |->
          IF w.args_[i].tag = TagString
          THEN [bytes |-> OscString(w.args_[i].value), fixed |-> TRUE]
          ELSE IF w.args_[i].tag = TagBlob
          THEN [bytes |-> Zeros(4) \o OscBlobData(w.args_[i].value), fixed |-> FALSE]
          ELSE [bytes |-> Zeros(4), fixed |-> FALSE]]

\* the packet p holds the fields from the i-th on, one after the other from
\* position pos to its end, each starting and ending on a 4-byte boundary
RECURSIVE HoldsFields(_, _, _, _)
HoldsFields(p, fields, i, pos) ==
    IF i > Len(fields) THEN pos = Len(p)
    ELSE LET f == fields[i].bytes
             skip == IF fields[i].fixed THEN 0 ELSE 4
         IN  /\ pos % 4 = 0
             /\ Len(f) % 4 = 0
             /\ pos + Len(f) <= Len(p)
             /\ SubSeq(p, pos + skip + 1, pos + Len(f)) = SubSeq(f, skip + 1, Len(f))
             /\ HoldsFields(p, fields, i + 1, pos + Len(f))

\* C24: the packet of a message encoded without error has a length that is
\* a multiple of 4, and the address, the type tag string and every string
\* and blob argument start and end on a 4-byte boundary, the strings with
\* at least one null byte and all padding zero.
C24_Aligned ==
    (writer.message_ended_ /\ ~writer.error_) =>
        /\ Len(Packet(writer)) % 4 = 0
        /\ Len(Packet(writer)) > 0
        /\ HoldsFields(Packet(writer), PacketFields(writer), 1, 0)

\* a message with a string of 4 bytes and a blob of 5 bytes was encoded
C24_Witness ==
    /\ osc_op.name = "end_message"
    /\ writer.message_ended_
    /\ ~writer.error_
    /\ writer.address_ = <<Slash, 97, 98, 99>>
    /\ writer.args_ = <<[tag |-> TagString, value |-> <<97, 98, 99, 100>>],
                        [tag |-> TagBlob, value |-> <<1, 0, 3, 4, 5>>]>>
    /\ Len(Packet(writer)) = 32

AddOps == {"add_int32", "add_float32", "add_string", "add_blob"}

WriterOps == AddOps \cup {"begin_message", "end_message"}

\* C25: once the writer's error flag is set, every later call of
\* begin_message, add_* or end_message leaves it set, stages no argument and
\* writes no byte of the buffer, and packet() is empty.
C25_StickyError ==
    /\ (osc_op.name \in WriterOps /\ osc_op.before.error_) =>
          /\ writer.error_
          /\ writer.args_ = osc_op.before.args_
          /\ writer.buffer_ = osc_op.before.buffer_
    /\ writer.error_ => Packet(writer) = <<>>

\* end_message was called on a writer whose flag was set by an overflow in
\* the middle of a message with an argument
C25_Witness ==
    /\ osc_op.name = "end_message"
    /\ osc_op.before.error_
    /\ osc_op.before.message_started_
    /\ osc_op.before.write_pos_ > 0
    /\ osc_op.before.args_ # <<>>
    /\ writer = osc_op.before

\* C26: add_* or end_message before a successful begin_message, add_* after
\* end_message and a second end_message set the error flag, and packet() is
\* then empty.
C26_OutOfOrder ==
    ( /\ osc_op.name \in AddOps \cup {"end_message"}
      /\ \/ ~osc_op.before.message_started_
         \/ osc_op.before.error_
         \/ osc_op.before.message_ended_ )
    => (writer.error_ /\ Packet(writer) = <<>>)

\* a second end_message on a writer that held a complete packet
C26_Witness ==
    /\ osc_op.name = "end_message"
    /\ osc_op.before.message_ended_
    /\ ~osc_op.before.error_
    /\ Packet(osc_op.before) # <<>>
    /\ writer.error_

ValidAddress(address) == address # <<>> /\ address[1] = Slash

\* C27: begin_message on a writer without error, fresh, with staged
\* arguments or after end_message, sets the write position and the argument
\* count to zero and sets no error when the address is valid, and sets the
\* error flag when it is not.
C27_BeginResets ==
    (osc_op.name = "begin_message" /\ ~osc_op.before.error_) =>
        IF ValidAddress(osc_op.arg)
        THEN ~writer.error_ /\ writer.write_pos_ = 0 /\ writer.args_ = <<>>
        ELSE writer.error_

\* the index of the first null byte of p at or after index from, 0 if none
NulAt(p, from) ==
    IF \E k \in from..Len(p) : p[k] = 0
    THEN CHOOSE k \in from..Len(p) : p[k] = 0 /\ \A j \in from..(k - 1) : p[j] # 0
    ELSE 0

\* p is a valid address as an OSC string and nothing more
IsAddressOnly(p) ==
    /\ ValidAddress(p)
    /\ NulAt(p, 1) > 0
    /\ p = OscString(SubSeq(p, 1, NulAt(p, 1) - 1))

\* C28: a packet that holds a padded address string and nothing more is
\* decoded without error to that address and no arguments, the same as the
\* packet with the type tag string "," after it.
C28_NoTypeTags ==
    (osc_op.name = "read" /\ IsAddressOnly(osc_op.arg)) =>
        LET with_comma == OscReader(osc_op.arg \o <<Comma, 0, 0, 0>>)
        IN  /\ ~reader.error_
            /\ reader.arguments_ = <<>>
            /\ reader.address_ = SubSeq(osc_op.arg, 1, NulAt(osc_op.arg, 1) - 1)
            /\ with_comma.error_ = reader.error_
            /\ with_comma.arguments_ = reader.arguments_
            /\ with_comma.address_ = reader.address_

\* the packet /abc with four null bytes was decoded
C28_Witness ==
    /\ osc_op.name = "read"
    /\ osc_op.arg = <<Slash, 97, 98, 99, 0, 0, 0, 0>>
    /\ reader.made
    /\ reader.address_ = <<Slash, 97, 98, 99>>

\* where the type tag string of p starts, counted from 0, for an address
\* that ends in p
TagsStart(p) == Len(OscString(SubSeq(p, 1, NulAt(p, 1) - 1)))

\* the tag characters of p, for a type tag string that ends in p
TagChars(p) == SubSeq(p, TagsStart(p) + 2, NulAt(p, TagsStart(p) + 1) - 1)

\* an argument from the i-th tag on, the first at position pos, would extend
\* past the end of p
RECURSIVE Overruns(_, _, _, _)
Overruns(p, tags, i, pos) ==
    IF i > Len(tags) THEN FALSE
    ELSE IF tags[i] \in {TagInt32, TagFloat32}
         THEN pos + 4 > Len(p) \/ Overruns(p, tags, i + 1, pos + 4)
    ELSE IF tags[i] = TagString
         THEN IF pos >= Len(p) THEN TRUE
              ELSE IF NulAt(p, pos + 1) = 0 THEN TRUE
              ELSE Overruns(p, tags, i + 1,
                            pos + Len(OscString(SubSeq(p, pos + 1, NulAt(p, pos + 1) - 1))))
    ELSE IF tags[i] = TagBlob
         THEN IF pos + 4 > Len(p) THEN TRUE
              ELSE LET n == ReadInt32(p, pos).result
                   IN  IF n < 0 THEN FALSE
                       ELSE IF n > Len(p) - (pos + 4) THEN TRUE
                       ELSE Overruns(p, tags, i + 1,
                                     pos + 4 + Len(OscBlobData(SubSeq(p, pos + 5, pos + 4 + n))))
    ELSE FALSE

\* p is one of the packets the reader has to refuse
Malformed(p) ==
    \/ p = <<>>
    \/ ~ValidAddress(p)
    \/ NulAt(p, 1) = 0
    \/ /\ TagsStart(p) < Len(p)
       /\ \/ p[TagsStart(p) + 1] # Comma
          \/ NulAt(p, TagsStart(p) + 1) = 0
          \/ \E i \in 1..Len(TagChars(p)) :
                TagChars(p)[i] \notin {TagInt32, TagFloat32, TagString, TagBlob}
          \/ Overruns(p, TagChars(p), 1,
                      TagsStart(p) + Len(OscString(<<Comma>> \o TagChars(p))))

\* the number of tag characters of a packet that is not malformed
TagCount(p) == IF TagsStart(p) >= Len(p) THEN 0 ELSE Len(TagChars(p))

\* C29: the reader sets its error flag for the empty packet, for an address
\* that is empty or does not start with '/', for a type tag string that
\* does not start with ',', for a tag outside i, f, s, b and for an
\* int32, float32, string or blob that would extend past the end of the
\* packet; without error it holds as many arguments as tag characters.
C29_ReaderErrors ==
    osc_op.name = "read" =>
        /\ Malformed(osc_op.arg) => reader.error_
        /\ ~reader.error_ => Len(reader.arguments_) = TagCount(osc_op.arg)

\* a blob announced with 1 byte and no data was refused, with the blob not
\* among the arguments
C29_Witness ==
    /\ osc_op.name = "read"
    /\ osc_op.arg = <<Slash, 97, 0, 0, Comma, TagBlob, 0, 0, 0, 0, 0, 1>>
    /\ reader.error_
    /\ reader.type_tag_ = <<Comma, TagBlob>>
    /\ reader.arguments_ = <<>>

\* C30: the reader sets its error flag for every packet whose length is not
\* a multiple of 4 and for every packet that ends inside the padding of a
\* string.
C30_TruncatedMisaligned ==
    (osc_op.name = "read" /\ Len(osc_op.arg) % 4 # 0) => reader.error_

\* C31: packet() is non-empty only after an end_message that completed
\* without error: it is empty on a new writer, stays empty through
\* begin_message and add_*, is empty whenever the error flag is set, and on
\* success it is the first bytes_written() bytes of the buffer, all of them
\* written by end_message.
C31_PacketAfterEnd ==
    /\ osc_op.name = "none" => Packet(writer) = <<>>
    /\ writer.error_ => Packet(writer) = <<>>
    /\ (osc_op.name \in WriterOps /\ osc_op.name # "end_message")
           => Len(Packet(writer)) <= Len(Packet(osc_op.before))
    /\ (osc_op.name = "end_message" /\ ~writer.error_) =>
          /\ Packet(writer) # <<>>
          /\ Len(Packet(writer)) = writer.write_pos_
          /\ writer.write_pos_ <= Len(writer.buffer_)
          /\ \A i \in 1..writer.write_pos_ :
                Packet(writer)[i] = writer.buffer_[i] /\ writer.buffer_[i] # Untouched

\* end_message gave a packet of 8 bytes in a buffer of 12
C31_Witness ==
    /\ osc_op.name = "end_message"
    /\ Len(writer.buffer_) = 12
    /\ Packet(osc_op.before) = <<>>
    /\ Packet(writer) = <<Slash, 0, 0, 0, Comma, 0, 0, 0>>

\* add_* finds a started writer without error
AddAccepted ==
    /\ osc_op.name \in AddOps
    /\ ~osc_op.before.error_
    /\ osc_op.before.message_started_
    /\ ~osc_op.before.message_ended_

\* C32: the writer never holds more than OSC_MAX_ARGS staged arguments; an
\* add_* on a started writer with fewer stages one more without error, and
\* with OSC_MAX_ARGS staged it sets the error flag and stages nothing.
C32_MaxArgs ==
    /\ Len(writer.args_) <= OSC_MAX_ARGS
    /\ (AddAccepted /\ Len(osc_op.before.args_) < OSC_MAX_ARGS) =>
          /\ ~writer.error_
          /\ Len(writer.args_) = Len(osc_op.before.args_) + 1
          /\ SubSeq(writer.args_, 1, Len(osc_op.before.args_)) = osc_op.before.args_
    /\ (AddAccepted /\ Len(osc_op.before.args_) >= OSC_MAX_ARGS) =>
          /\ writer.error_
          /\ writer.args_ = osc_op.before.args_

\* the 65th add_* was refused
C32_Witness ==
    /\ AddAccepted
    /\ Len(osc_op.before.args_) = OSC_MAX_ARGS
    /\ Len(writer.args_) = OSC_MAX_ARGS
    /\ writer.error_

\* the length of the fields from the i-th on
RECURSIVE FieldsLength(_, _)
FieldsLength(fields, i) ==
    IF i > Len(fields) THEN 0 ELSE Len(fields[i].bytes) + FieldsLength(fields, i + 1)

\* end_message finds a started writer without error
EndAccepted ==
    /\ osc_op.name = "end_message"
    /\ ~osc_op.before.error_
    /\ osc_op.before.message_started_
    /\ ~osc_op.before.message_ended_

\* C33: the write position never passes the end of the buffer, no byte at
\* or above the write position and none outside the buffer is written, and
\* an end_message whose message does not fit sets the error flag, with
\* packet() empty.
C33_InsideBuffer ==
    /\ writer.write_pos_ <= Len(writer.buffer_)
    /\ Len(writer.buffer_) = Len(osc_op.before.buffer_)
    /\ \A i \in 1..Len(writer.buffer_) :
          i > writer.write_pos_ => writer.buffer_[i] = Untouched
    /\ (EndAccepted /\ FieldsLength(PacketFields(osc_op.before), 1) > Len(writer.buffer_))
          => (writer.error_ /\ Packet(writer) = <<>>)

\* end_message wrote the address, the tags and an argument and then found
\* no room for the next argument
C33_Witness ==
    /\ EndAccepted
    /\ writer.error_
    /\ writer.write_pos_ >= 12
    /\ writer.write_pos_ < Len(writer.buffer_)
    /\ Len(writer.args_) = 2

-----------------------------------------------------------------------------
(* LomProtocol::deserialize_response (INBR001A.cpp); JSON values are those *)
(* of nlohmann::json                                                        *)

\* JSON values by kind; an integer is high * 2^32 + low with low its low 32
\* bits as a signed number, a float carries its text and its integer part
JNull == [kind |-> "null"]

JBoolean(b) == [kind |-> "boolean", b |-> b]

JInteger(high, low) == [kind |-> "integer", high |-> high, low |-> low]

JFloat(text, trunc) == [kind |-> "float", text |-> text, trunc |-> trunc]

JString(s) == [kind |-> "string", s |-> s]

JArray(items) == [kind |-> "array", items |-> items]

JObject(members) == [kind |-> "object", members |-> members]

\* a key that the object does not hold
Absent == [kind |-> "absent"]

\* std::optional: empty or holding one value
Nothing == <<>>

Some(x) == <<x>>

\* texts that are not JSON
MalformedTexts == {"not json", "", "{broken"}

\* what the members of an envelope hold
SuccessMembers == {Absent, JBoolean(TRUE), JBoolean(FALSE), JString("yes"), JNull}

ValueMembers ==
    {Absent, JNull, JBoolean(TRUE), JInteger(0, 42), JInteger(0, -1),
     JInteger(1, -IntMax - 1), JFloat("2.5", 2), JString("s"),
     JArray(<<>>),
     JArray(<<JInteger(0, 1), JInteger(0, 2)>>),
     JArray(<<JInteger(0, 1), JFloat("2.5", 2)>>),
     JArray(<<JInteger(0, 1), JBoolean(TRUE)>>),
     JArray(<<JInteger(0, 1), JString("a")>>),
     JArray(<<JInteger(0, 1), JNull>>),
     JArray(<<JFloat("2.5", 2), JInteger(0, 1)>>),
     JArray(<<JFloat("2.5", 2), JString("a")>>),
     JArray(<<JString("a"), JString("b")>>),
     JArray(<<JString("a"), JInteger(0, 1)>>),
     JArray(<<JBoolean(TRUE), JInteger(0, 1)>>),
     JObject([k \in {"x"} |-> JInteger(0, 1)])}

ErrorMembers == {Absent, JString("boom"), JInteger(0, 5)}

CallbackIdMembers == {Absent, JString("cb1"), JInteger(0, 7)}

\* the object with the members that are not absent
Envelope(success, value, error, callback_id) ==
    LET all == [k \in {"success", "value", "error", "callback_id"} |->
                   CASE k = "success" -> success
                     [] k = "value" -> value
                     [] k = "error" -> error
                     [] k = "callback_id" -> callback_id]
        keys == {k \in DOMAIN all : all[k] # Absent}
    IN  JObject([k \in keys |-> all[k]])

\* the JSON documents received: values that are no object, and envelopes
Documents ==
    {JNull, JInteger(0, 42), JString("ok"), JBoolean(TRUE),
     JArray(<<JInteger(0, 1)>>)}
    \cup {Envelope(s, v, e, c) : s \in SuccessMembers, v \in ValueMembers,
                                 e \in ErrorMembers, c \in CallbackIdMembers}

\* the input of deserialize_response: a text that is not JSON, or the text
\* of a document
Inputs ==
    {[json |-> FALSE, text |-> t] : t \in MalformedTexts}
    \cup {[json |-> TRUE, document |-> d] : d \in Documents}

\* json::parse(input): the document, or json::parse_error
JsonParse(input) ==
    IF input.json THEN [throws |-> "", j |-> input.document]
    ELSE [throws |-> "parse_error", j |-> JNull]

\* j.contains(key): false for a value that is no object
Contains(j, key) == j.kind = "object" /\ key \in DOMAIN j.members

\* the element converts to int or double: nlohmann's from_json for an
\* arithmetic type takes numbers and booleans and throws type_error 302 for
\* everything else
IsArithmetic(j) == j.kind \in {"integer", "float", "boolean"}

\* j.get<int>()
GetInt(j) ==
    CASE j.kind = "integer" -> j.low
      [] j.kind = "float" -> j.trunc
      [] j.kind = "boolean" -> IF j.b THEN 1 ELSE 0

\* j.get<double>(), as the text of the number
GetDouble(j) ==
    CASE j.kind = "integer" -> <<j.high, j.low>>
      [] j.kind = "float" -> <<j.text>>
      [] j.kind = "boolean" -> <<0, IF j.b THEN 1 ELSE 0>>

\* json_to_lom_value(j): the LomValue, or the exception that get<> throws
json_to_lom_value(j) ==
    LET value(type, v) == [throws |-> "", type |-> type, v |-> v]
        throw == [throws |-> "type_error", type |-> "", v |-> <<>>]
        n == Len(j.items)
    IN  IF j.kind = "boolean" THEN value("bool", j.b)
        ELSE IF j.kind = "integer" THEN value("int", j.low)
        ELSE IF j.kind = "float" THEN value("double", j.text)
        ELSE IF j.kind = "string" THEN value("string", j.s)
        ELSE IF j.kind = "array" THEN
            IF n = 0 THEN value("string", "")
            ELSE IF j.items[1].kind = "integer" THEN
                IF \A i \in 1..n : IsArithmetic(j.items[i])
                THEN value("vector<int>", [i \in 1..n |-> GetInt(j.items[i])])
                ELSE throw
            ELSE IF j.items[1].kind = "float" THEN
                IF \A i \in 1..n : IsArithmetic(j.items[i])
                THEN value("vector<double>", [i \in 1..n |-> GetDouble(j.items[i])])
                ELSE throw
            ELSE IF j.items[1].kind = "string" THEN
                IF \A i \in 1..n : j.items[i].kind = "string"
                THEN value("vector<string>", [i \in 1..n |-> j.items[i].s])
                ELSE throw
            ELSE value("string", "")
        ELSE value("string", "")

\* the member of that key if it is a string
StringMember(j, key) ==
    IF Contains(j, key)
    THEN IF j.members[key].kind = "string" THEN Some(j.members[key].s) ELSE Nothing
    ELSE Nothing

\* deserialize_response(input): "nullopt", a response, or an exception that
\* leaves the function
deserialize_response(input) ==
    LET parsed == JsonParse(input)
        j == parsed.j
        none == [outcome |-> "nullopt", success |-> FALSE, value |-> Nothing,
                 error |-> Nothing, callback_id |-> Nothing]
        success == IF Contains(j, "success")
                   THEN IF j.members["success"].kind = "boolean"
                        THEN j.members["success"].b ELSE FALSE
                   ELSE FALSE
        has_value == IF Contains(j, "value") THEN j.members["value"].kind # "null"
                     ELSE FALSE
        converted == json_to_lom_value(j.members["value"])
    IN  IF parsed.throws = "parse_error" THEN none
        ELSE IF has_value /\ converted.throws # ""
             THEN [none EXCEPT !.outcome = converted.throws]
        ELSE [outcome |-> "response",
              success |-> success,
              value |-> IF has_value
                        THEN Some([type |-> converted.type, v |-> converted.v])
                        ELSE Nothing,
              error |-> StringMember(j, "error"),
              callback_id |-> StringMember(j, "callback_id")]

\* no response has been deserialized
InitLom ==
    /\ lom_input = [json |-> FALSE, text |-> "none"]
    /\ lom_result = [outcome |-> "none", success |-> FALSE, value |-> Nothing,
                     error |-> Nothing, callback_id |-> Nothing]

\* the application deserializes a received text
Deserialize(input) ==
    /\ lom_input' = input
    /\ lom_result' = deserialize_response(input)
    /\ UNCHANGED <<ringVars, paramVars, tcpVars, sessVars, oscVars, rtVars, orchVars>>

NextLom == \E input \in Inputs : Deserialize(input)

-----------------------------------------------------------------------------
(* LomProtocol: properties                                                  *)

\* C34: deserialize_response never raises: every input gives no response
\* or a response; a text that is not JSON gives no response, and a missing
\* or non-boolean success member gives success == false.
C34_NeverRaises ==
    /\ lom_result.outcome \in {"none", "nullopt", "response"}
    /\ (lom_result.outcome # "none" /\ ~lom_input.json) => lom_result.outcome = "nullopt"
    /\ lom_result.outcome = "response" =>
          (IF Contains(lom_input.document, "success")
           THEN lom_input.document.members["success"].kind = "boolean"
           ELSE FALSE)
          \/ ~lom_result.success

-----------------------------------------------------------------------------
(* Render Transport (RDTR001A.h, RDTR001A.cpp): tick-based scheduling of    *)
(* MIDI events                                                              *)

PlayStates == {"Stopped", "Playing", "Paused", "Recording"}

\* the most events scheduled in one run, and the last tick reached
MaxEvents == 2

MaxTick == 4

\* the ticks of scheduled events, the arguments of advance and of
\* set_position
ScheduleTicks == {1, 3}

AdvanceTicks == {0, 1, 2}

PositionTicks == {-1, 0, 2}

\* Transport(ppq)
InitRender ==
    /\ play_state_ = "Stopped"
    /\ current_tick_ = 0
    /\ event_queue_ = {}
    /\ note_on_callback_ = FALSE
    /\ note_off_callback_ = FALSE
    /\ scheduled = 0
    /\ dispatched = <<>>
    /\ cleared = {}
    /\ rt_op = [name |-> "none", arg |-> 0, state |-> "Stopped", tick |-> 0,
                queue |-> {}, dispatched |-> 0]

\* the operation name(arg) is called in the current state
RenderCall(name, arg) ==
    /\ rt_op' = [name |-> name, arg |-> arg, state |-> play_state_,
                 tick |-> current_tick_, queue |-> event_queue_,
                 dispatched |-> Len(dispatched)]
    /\ UNCHANGED <<ringVars, paramVars, tcpVars, sessVars, oscVars, lomVars, orchVars>>

\* play()
Play ==
    /\ play_state_' = "Playing"
    /\ RenderCall("play", 0)
    /\ UNCHANGED <<current_tick_, event_queue_, note_on_callback_,
                   note_off_callback_, scheduled, dispatched, cleared>>

\* stop()
Stop ==
    /\ play_state_' = "Stopped"
    /\ current_tick_' = 0
    /\ RenderCall("stop", 0)
    /\ UNCHANGED <<event_queue_, note_on_callback_, note_off_callback_,
                   scheduled, dispatched, cleared>>

\* pause()
Pause ==
    /\ play_state_' = IF play_state_ = "Playing" THEN "Paused" ELSE play_state_
    /\ RenderCall("pause", 0)
    /\ UNCHANGED <<current_tick_, event_queue_, note_on_callback_,
                   note_off_callback_, scheduled, dispatched, cleared>>

\* set_position(ticks)
SetPosition(ticks) ==
    /\ current_tick_' = IF ticks >= 0 THEN ticks ELSE 0
    /\ RenderCall("set_position", ticks)
    /\ UNCHANGED <<play_state_, event_queue_, note_on_callback_,
                   note_off_callback_, scheduled, dispatched, cleared>>

\* schedule(event) with event.tick = tick and event.event.velocity > 0 iff
\* on; id tells the scheduled events apart
Schedule(tick, on) ==
    /\ scheduled < MaxEvents
    /\ event_queue_' = event_queue_ \cup {[id |-> scheduled + 1, tick |-> tick, on |-> on]}
    /\ scheduled' = scheduled + 1
    /\ RenderCall("schedule", tick)
    /\ UNCHANGED <<play_state_, current_tick_, note_on_callback_,
                   note_off_callback_, dispatched, cleared>>

\* schedule_note(tick, pitch, duration, velocity) with velocity > 0 and a
\* duration of duration_ticks: the note-on at tick, the note-off after it
ScheduleNote(tick, duration_ticks) ==
    /\ scheduled + 2 <= MaxEvents
    /\ event_queue_' = event_queue_
           \cup {[id |-> scheduled + 1, tick |-> tick, on |-> TRUE],
                 [id |-> scheduled + 2, tick |-> tick + duration_ticks, on |-> FALSE]}
    /\ scheduled' = scheduled + 2
    /\ RenderCall("schedule_note", tick)
    /\ UNCHANGED <<play_state_, current_tick_, note_on_callback_,
                   note_off_callback_, dispatched, cleared>>

\* clear_scheduled()
ClearScheduled ==
    /\ event_queue_' = {}
    /\ cleared' = cleared \cup {e.id : e \in event_queue_}
    /\ RenderCall("clear_scheduled", 0)
    /\ UNCHANGED <<play_state_, current_tick_, note_on_callback_,
                   note_off_callback_, scheduled, dispatched>>

\* set_note_on_callback(callback), callable or empty
SetNoteOnCallback(callable) ==
    /\ note_on_callback_' = callable
    /\ RenderCall("set_note_on_callback", 0)
    /\ UNCHANGED <<play_state_, current_tick_, event_queue_, note_off_callback_,
                   scheduled, dispatched, cleared>>

\* set_note_off_callback(callback), callable or empty
SetNoteOffCallback(callable) ==
    /\ note_off_callback_' = callable
    /\ RenderCall("set_note_off_callback", 0)
    /\ UNCHANGED <<play_state_, current_tick_, event_queue_, note_on_callback_,
                   scheduled, dispatched, cleared>>

\* the orders in which the priority queue gives out the events of due: by
\* tick, events of the same tick in any order
PopOrders(due) ==
    {order \in [1..Cardinality(due) -> due] :
        /\ \A i, j \in 1..Cardinality(due) : i # j => order[i] # order[j]
        /\ \A i, j \in 1..Cardinality(due) : i < j => order[i].tick <= order[j].tick}

\* the calls dispatch_events_until makes for the events popped in this
\* order: an event whose callback is empty is popped without a call
RECURSIVE Calls(_, _, _)
Calls(order, i, target) ==
    IF i > Len(order) THEN <<>>
    ELSE (IF (order[i].on /\ note_on_callback_) \/ (~order[i].on /\ note_off_callback_)
          THEN <<[id |-> order[i].id, tick |-> order[i].tick, on |-> order[i].on,
                  target |-> target]>>
          ELSE <<>>)
         \o Calls(order, i + 1, target)

\* advance(ticks): nothing unless Playing; dispatch_events_until(target_tick)
\* and the new position
Advance(ticks) ==
    /\ IF play_state_ # "Playing"
       THEN UNCHANGED <<current_tick_, event_queue_, dispatched>>
       ELSE LET target_tick == current_tick_ + ticks
                due == {e \in event_queue_ : e.tick <= target_tick}
            IN  /\ target_tick <= MaxTick
                /\ \E order \in PopOrders(due) :
                      dispatched' = dispatched \o Calls(order, 1, target_tick)
                /\ event_queue_' = event_queue_ \ due
                /\ current_tick_' = target_tick
    /\ RenderCall("advance", ticks)
    /\ UNCHANGED <<play_state_, note_on_callback_, note_off_callback_, scheduled, cleared>>

NextRender ==
    \/ Play
    \/ Stop
    \/ Pause
    \/ \E ticks \in PositionTicks : SetPosition(ticks)
    \/ \E tick \in ScheduleTicks, on \in BOOLEAN : Schedule(tick, on)
    \/ \E tick \in ScheduleTicks, d \in {0, 1} : ScheduleNote(tick, d)
    \/ ClearScheduled
    \/ \E callable \in BOOLEAN : SetNoteOnCallback(callable)
    \/ \E callable \in BOOLEAN : SetNoteOffCallback(callable)
    \/ \E ticks \in AdvanceTicks : Advance(ticks)

-----------------------------------------------------------------------------
(* Render Transport: properties                                             *)

\* C36: events are dispatched in non-decreasing tick order, each at most
\* once, only by advance() while Playing and only with a tick at or below
\* the position that advance() reaches; advance() in another state changes
\* neither the position nor the queue; events removed by clear_scheduled()
\* are never dispatched.
C36_DispatchOrder ==
    /\ \A i, j \in 1..Len(dispatched) :
          i < j => /\ dispatched[i].tick <= dispatched[j].tick
                   /\ dispatched[i].id # dispatched[j].id
    /\ Len(dispatched) > rt_op.dispatched =>
          (rt_op.name = "advance" /\ rt_op.state = "Playing")
    /\ \A i \in 1..Len(dispatched) : dispatched[i].tick <= dispatched[i].target
    /\ (rt_op.name = "advance" /\ Len(dispatched) > rt_op.dispatched) =>
          \A i \in (rt_op.dispatched + 1)..Len(dispatched) :
              dispatched[i].target = current_tick_
    /\ (rt_op.name = "advance" /\ rt_op.state # "Playing") =>
          (current_tick_ = rt_op.tick /\ event_queue_ = rt_op.queue)
    /\ \A i \in 1..Len(dispatched) : dispatched[i].id \notin cleared

-----------------------------------------------------------------------------
(* Orchestrator (INOR001A.h, INOR001A.cpp): the undo and redo stacks        *)

\* max_undo_levels_{100}
DefaultMaxUndoLevels == 100

\* the most operations recorded in one run
MaxOperations == 4

\* the arguments of set_max_undo_levels
UndoLevels == {0, 1, 2, DefaultMaxUndoLevels}

\* Orchestrator()
InitOrch ==
    /\ undo_stack_ = <<>>
    /\ redo_stack_ = <<>>
    /\ max_undo_levels_ = DefaultMaxUndoLevels
    /\ recorded = 0
    /\ orch_op = [name |-> "none", undo |-> <<>>, redo |-> <<>>]

\* the operation name is called in the current state
OrchCall(name) ==
    /\ orch_op' = [name |-> name, undo |-> undo_stack_, redo |-> redo_stack_]
    /\ UNCHANGED <<ringVars, paramVars, tcpVars, sessVars, oscVars, lomVars, rtVars>>

\* the front elements go while there are more than levels
DropFront(stack, levels) ==
    IF Len(stack) > levels THEN SubSeq(stack, Len(stack) - levels + 1, Len(stack))
    ELSE stack

\* push_operation(op): the stacks after it
PushOperation(op) ==
    [undo |-> DropFront(Append(undo_stack_, op), max_undo_levels_), redo |-> <<>>]

\* create_progression_clip / create_arpeggio_clip succeed and record their
\* operation
RecordOperation ==
    /\ recorded < MaxOperations
    /\ recorded' = recorded + 1
    /\ undo_stack_' = PushOperation(recorded + 1).undo
    /\ redo_stack_' = PushOperation(recorded + 1).redo
    /\ OrchCall("record")
    /\ UNCHANGED max_undo_levels_

\* undo()
Undo ==
    /\ IF undo_stack_ = <<>> THEN UNCHANGED <<undo_stack_, redo_stack_>>
       ELSE /\ undo_stack_' = SubSeq(undo_stack_, 1, Len(undo_stack_) - 1)
            /\ redo_stack_' = Append(redo_stack_, undo_stack_[Len(undo_stack_)])
    /\ OrchCall("undo")
    /\ UNCHANGED <<max_undo_levels_, recorded>>

\* redo()
Redo ==
    /\ IF redo_stack_ = <<>> THEN UNCHANGED <<undo_stack_, redo_stack_>>
       ELSE /\ redo_stack_' = SubSeq(redo_stack_, 1, Len(redo_stack_) - 1)
            /\ undo_stack_' = Append(undo_stack_, redo_stack_[Len(redo_stack_)])
    /\ OrchCall("redo")
    /\ UNCHANGED <<max_undo_levels_, recorded>>

\* clear_history()
ClearHistory ==
    /\ undo_stack_' = <<>>
    /\ redo_stack_' = <<>>
    /\ OrchCall("clear_history")
    /\ UNCHANGED <<max_undo_levels_, recorded>>

\* set_max_undo_levels(levels)
SetMaxUndoLevels(levels) ==
    /\ max_undo_levels_' = levels
    /\ OrchCall("set_max_undo_levels")
    /\ UNCHANGED <<undo_stack_, redo_stack_, recorded>>

NextOrch ==
    \/ RecordOperation
    \/ Undo
    \/ Redo
    \/ ClearHistory
    \/ \E levels \in UndoLevels : SetMaxUndoLevels(levels)

-----------------------------------------------------------------------------
(* Orchestrator: properties                                                 *)

\* C40: the undo stack never holds more than max_undo_levels operations,
\* and right after an operation is recorded the redo stack is empty.
C40_UndoBounded ==
    /\ Len(undo_stack_) <= max_undo_levels_
    /\ orch_op.name = "record" => redo_stack_ = <<>>

-----------------------------------------------------------------------------
(* Specifications                                                          *)

\* the ring buffer after construction; the other components are not in use
InitSpecRing == InitRing /\ InitParamIdle /\ InitTcp /\ InitSess /\ InitOscIdle /\ InitLom /\ InitRender /\ InitOrch

SpecRing == InitSpecRing /\ [][NextRing]_vars

InitSpecRingSize == InitRing /\ InitParamIdle /\ InitTcp /\ InitSess /\ InitOscIdle /\ InitLom /\ InitRender /\ InitOrch

SpecRingSize == InitSpecRingSize /\ [][NextRingSize]_vars

\* the parameter after construction; the other components are not in use
InitSpecParam == InitParam /\ InitRing /\ InitTcp /\ InitSess /\ InitOscIdle /\ InitLom /\ InitRender /\ InitOrch

SpecParam == InitSpecParam /\ [][NextParam]_vars

\* the transport after construction; the other components are not in use
InitSpecTcp == InitTcp /\ InitRing /\ InitParamIdle /\ InitSess /\ InitOscIdle /\ InitLom /\ InitRender /\ InitOrch

SpecTcp == InitSpecTcp /\ [][NextTcp]_vars

\* the configurations (retry_delay_ms, max_retry_delay_ms) of SpecBackoff
RetryDelayChoices == {1, DefaultRetryDelayMs, IntMax \div 2 + 1, 1500000000}
MaxRetryDelayChoices == {4, DefaultMaxRetryDelayMs, 2000000000, IntMax}
BackoffConfigs ==
    {c \in [retry_delay_ms : RetryDelayChoices, max_retry_delay_ms : MaxRetryDelayChoices] :
        0 < c.retry_delay_ms /\ c.retry_delay_ms <= c.max_retry_delay_ms}

\* a transport constructed with any of the configurations; nobody sends
InitSpecBackoff ==
    /\ \E c \in BackoffConfigs : InitTcpWith(c)
    /\ wire_on = FALSE
    /\ InitRing
    /\ InitParamIdle
    /\ InitSess /\ InitOscIdle /\ InitLom /\ InitRender /\ InitOrch

NextBackoff ==
    \/ \E t \in Threads \ {"snd"} : SetStateXchg(t)
    \/ \E t \in Threads \ {"snd"} : SetStateNotify(t)
    \/ Connect
    \/ \E t \in {"app", "rc"} : ConnectSocketOpen(t)
    \/ \E t \in {"app", "rc"} : ConnectSocketOk(t)
    \/ \E t \in {"app", "rc"} : ConnectSocketFail(t)
    \/ ConnectFailed
    \/ ConnectReturnFalse
    \/ ConnectSucceeded
    \/ ConnectStart
    \/ Disconnect
    \/ DisconnectClose
    \/ DisconnectJoinReceive
    \/ DisconnectJoinReconnect
    \/ DisconnectReturn
    \/ \E t \in Owned : RlHead(t)
    \/ \E t \in Owned : RlPollTimeout(t)
    \/ \E t \in Owned : RlPollFail(t)
    \/ \E t \in Owned : RlPollHup(t)
    \/ \E t \in Owned : RlPollIn(t)
    \/ \E t \in Owned : RlRecvFail(t)
    \/ \E t \in Owned, length \in FrameLens : RlRecvFrame(t, length)
    \/ \E t \in Owned : RlDeliver(t)
    \/ \E t \in Owned : RlSpawn(t)
    \/ RclStart
    \/ RclInit
    \/ RclHead
    \/ RclSleep
    \/ RclConnected
    \/ RclBackoff
    \/ \E f \in Fds : PeerClose(f)

SpecBackoff == InitSpecBackoff /\ [][NextBackoff]_vars

\* the transport after construction, with the bytes on the wire recorded
InitSpecSend ==
    /\ InitTcpWith(TcpConfig)
    /\ wire_on = TRUE
    /\ InitRing
    /\ InitParamIdle
    /\ InitSess /\ InitOscIdle /\ InitLom /\ InitRender /\ InitOrch

\* two application threads call send(); the control thread calls connect()
\* and disconnect(); the peer sends nothing and never closes
NextSend ==
    \/ \E t \in Threads \ {"rc"} : SetStateXchg(t)
    \/ \E t \in Threads \ {"rc"} : SetStateNotify(t)
    \/ Connect
    \/ ConnectSocketOpen("app")
    \/ ConnectSocketOk("app")
    \/ ConnectSocketFail("app")
    \/ ConnectFailed
    \/ ConnectReturnFalse
    \/ ConnectSucceeded
    \/ ConnectStart
    \/ Disconnect
    \/ DisconnectClose
    \/ DisconnectJoinReceive
    \/ DisconnectJoinReconnect
    \/ DisconnectReturn
    \/ \E t \in Senders, len \in MsgLens : Send(t, len)
    \/ \E t \in Senders : SendCheck(t)
    \/ \E t \in Senders : SendHeader(t)
    \/ \E t \in Senders, k \in 1..3 : SendHeaderShort(t, k)
    \/ \E t \in Senders : SendHeaderFail(t)
    \/ \E t \in Senders, n \in 1..MaxMsgLen : SendPayload(t, n)
    \/ \E t \in Senders : SendPayloadFail(t)
    \/ \E t \in Senders : SendReturnFalse(t)
    \/ RlHead("rx")
    \/ RlPollTimeout("rx")
    \/ RlPollFail("rx")

SpecSend == InitSpecSend /\ [][NextSend]_vars

\* the steps of the control thread inside connect(), disconnect() and
\* set_state; the calls themselves are the application's choice
ControlSteps ==
    \/ ConnectSocketOpen("app")
    \/ ConnectSocketOk("app")
    \/ ConnectSocketFail("app")
    \/ ConnectFailed
    \/ ConnectReturnFalse
    \/ ConnectSucceeded
    \/ ConnectStart
    \/ DisconnectClose
    \/ DisconnectJoinReceive
    \/ DisconnectJoinReconnect
    \/ DisconnectReturn
    \/ SetStateXchg("app")
    \/ SetStateNotify("app")

\* the steps of sender t inside send() and set_state
SenderSteps(t) ==
    \/ SendCheck(t)
    \/ SendHeader(t)
    \/ \E k \in 1..3 : SendHeaderShort(t, k)
    \/ SendHeaderFail(t)
    \/ \E n \in 1..MaxMsgLen : SendPayload(t, n)
    \/ SendPayloadFail(t)
    \/ SendReturnFalse(t)
    \/ SetStateXchg(t)
    \/ SetStateNotify(t)

\* the steps of the owned thread t: receive_loop, reconnect_loop with its
\* connect_socket(), and set_state
OwnedSteps(t) ==
    \/ SetStateXchg(t)
    \/ SetStateNotify(t)
    \/ RlHead(t)
    \/ RlPollTimeout(t)
    \/ RlPollFail(t)
    \/ RlPollHup(t)
    \/ RlPollIn(t)
    \/ RlRecvFail(t)
    \/ \E length \in FrameLens : RlRecvFrame(t, length)
    \/ RlDeliver(t)
    \/ RlSpawn(t)
    \/ t = "rc" /\ (RclStart \/ RclInit \/ RclHead \/ RclSleep \/ RclConnected
                     \/ RclBackoff \/ ConnectSocketOpen(t)
                     \/ ConnectSocketOk(t) \/ ConnectSocketFail(t))

\* every thread that is inside a call or a loop is scheduled again: poll()
\* returns within 100 ms, the backoff sleep is cut into slices of 100 ms,
\* connect_socket() gives up after the connect timeout, ::send on a closed
\* or shut down socket fails, and the callbacks return
TcpFairness ==
    /\ WF_vars(ControlSteps)
    /\ WF_vars(SenderSteps("snd"))
    /\ \A t \in Owned : WF_vars(OwnedSteps(t))

SpecTcpFair == InitSpecTcp /\ [][NextTcp]_vars /\ TcpFairness

\* the session state machine after construction; the other components are
\* not in use
InitSpecSession == InitSess /\ InitRing /\ InitParamIdle /\ InitTcp /\ InitOscIdle /\ InitLom /\ InitRender /\ InitOrch

SpecSession == InitSpecSession /\ [][NextSession]_vars

\* a writer over a buffer of any of the sizes; the other components are not
\* in use
InitSpecOsc ==
    InitOsc /\ InitRing /\ InitParamIdle /\ InitTcp /\ InitSess
    /\ InitLom /\ InitRender /\ InitOrch

SpecOsc == InitSpecOsc /\ [][NextOsc]_vars

\* an application that receives bytes and decodes them; the other components
\* are not in use
InitSpecOscReader ==
    InitOscReader /\ InitRing /\ InitParamIdle /\ InitTcp /\ InitSess
    /\ InitLom /\ InitRender /\ InitOrch

SpecOscReader == InitSpecOscReader /\ [][NextOscReader]_vars

\* each of the remaining components alone; the others are not in use
InitIdle == InitRing /\ InitParamIdle /\ InitTcp /\ InitSess /\ InitOscIdle

InitSpecLom == InitLom /\ InitIdle /\ InitRender /\ InitOrch

SpecLom == InitSpecLom /\ [][NextLom]_vars

InitSpecRender == InitRender /\ InitIdle /\ InitLom /\ InitOrch

SpecRender == InitSpecRender /\ [][NextRender]_vars

InitSpecOrch == InitOrch /\ InitIdle /\ InitLom /\ InitRender

SpecOrch == InitSpecOrch /\ [][NextOrch]_vars
=============================================================================
